---- MODULE Spec2Model ----
(***************************************************************************)
(* The bulk operation engine of scripts/bulk_processor.py (BulkProcessor)  *)
(* and utils.batch_process: one caller thread drives a bulk run entity by  *)
(* entity, the progress tracker (progress_data under progress_lock) is     *)
(* read and cancelled by other threads.                                    *)
(***************************************************************************)
EXTENDS Integers, Sequences, FiniteSets, TLC

\* ---------------------------------------------------------------- bounds
MaxStudents == 3
MaxBatch == 4
MaxClock == 1
MaxRuns == 2
MaxTracked == 2
MaxTrackedBatch == 1
MaxRetried == 2
MaxStored == 1
MaxStoreRuns == 2
MaxLimit == 2
MaxValidated == 2
MaxTime == 4
MaxEdits == 1

\* ------------------------------------------------------------- constants
\* Python's None, and a dict key that is not present.
None == -1

\* config.get('bulk_processing', {}).get('max_workers', 5)
DefaultWorkers == 5
Absent == "<absent>"

FOLDERS == "bulk_create_student_folders"
ISSUES == "bulk_create_student_issues"
INVITATIONS == "bulk_send_invitations"
PROGRESS == "bulk_update_progress"
BATCH == "batch_process"
RETRY == "retry_failed_operations"

\* The operations that keep progress_data, and all loops of the same shape.
BulkOperations == {FOLDERS, ISSUES, INVITATIONS, PROGRESS}
Operations == BulkOperations \cup {BATCH}

\* The operation_type tags retry_failed_operations dispatches on (lines 638-651).
FOLDER_CREATION == "folder_creation"
INVITATION_SENDING == "invitation_sending"
ISSUE_CREATION == "issue_creation"
PROGRESS_UPDATE == "progress_update"
RegisteredTypes == {FOLDER_CREATION, INVITATION_SENDING, ISSUE_CREATION, PROGRESS_UPDATE}

\* Messages an exception raised by a per-entity operation may carry.
ExcMessages == {"timeout", "not found"}

VARIABLES
    max_workers,     \* self.max_workers
    batch_size,      \* self.batch_size (batch_process: its batch_size argument)
    progress_data,   \* self.progress_data
    progress_lock,   \* holder of self.progress_lock: "free" or a thread
    now,             \* datetime.now(), in clock ticks
    pc,              \* position of the caller thread inside the bulk call
    kind,            \* which bulk operation is being run
    callback,        \* progress_callback: "none" or "set"
    students,        \* load_project_data(...) / items
    phase,           \* "students" loop or the "supervisors" step
    i,               \* the batch loop's index
    batch,           \* students[i:i + batch_size]
    j,               \* position inside batch (1-based), the entity being processed
    batch_results,   \* create_folder_batch's local list
    all_results,     \* all_results (folders) / results (batch_process)
    results,         \* the results dict of the bulk operation
    pending,         \* the success flag passed to _update_progress
    ret,             \* how the last bulk call ended: "none", "returned", "raised"
    cancel_ret,      \* the value the last cancel_running_operation() returned
    cancel_calls,    \* parity of the number of cancel_running_operation() calls
    snap,            \* the last value returned by get_progress_status()
    runs,            \* number of bulk calls started
    sleeps,          \* number of time.sleep(delay) calls of the current run
    dispatched,      \* number of per-entity operations started in the current run
    inflight,        \* entities whose operation has started and not yet ended
    opLog,           \* what each per-entity operation did, in call order
    obs,             \* the snapshots handed to the observer, in call order
    obs_raised,      \* number of observer invocations that raised
    cancelAt,        \* operations started when cancel took effect in this run, or None
    operation_type,  \* retry_failed_operations: its operation_type argument
    failed_results,  \* retry_failed_operations: its failed_results argument
    taken,           \* retry_failed_operations: number of items the loop has taken
    store,           \* the files of data/bulk_operations
    writes,          \* number of files written so far (orders the files' mtimes)
    saveLog,         \* the save_progress_data calls of the current run, with their outcome
    history,         \* the last get_bulk_operation_history() call since the last bulk call
                     \* began, and the list it returned
    validation_type, \* validate_bulk_operation_prerequisites: its operation_type argument
                     \* in the last call, "none" before any call
    validation_result, \* the report the last validation returned
    environment,     \* what the last validation met: CSV, repository, quota reply, config, disk
    path,            \* the branch of main() taken: "none", "validate", "full_setup", "bulk", "exit"
    rate_limit_remaining, \* GitHubClient.rate_limit_remaining
    rate_limit_reset,     \* GitHubClient.rate_limit_reset, in seconds
    clock,           \* datetime.now() of the client, in seconds
    last_call,       \* the last call made on the client and what it did
    held             \* the dict a reader thread was handed last, and the dict the observer
                     \* of the current call was handed last

vars == <<max_workers, batch_size, progress_data, progress_lock, now, pc, kind, callback,
          students, phase, i, batch, j, batch_results, all_results, results,
          pending, ret, cancel_ret, cancel_calls, snap, runs, sleeps,
          dispatched, inflight, opLog, obs, obs_raised, cancelAt,
          operation_type, failed_results, taken, store, writes, saveLog, history,
          validation_type, validation_result, environment, path,
          rate_limit_remaining, rate_limit_reset, clock, last_call, held>>

configVars == <<max_workers, batch_size>>
trackerVars == <<progress_data, progress_lock>>
loopVars == <<i, batch, j, batch_results, all_results, results, pending, phase>>
callVars == <<kind, callback, students, runs>>
otherThreads == <<cancel_ret, cancel_calls, snap, cancelAt, held>>
ghostVars == <<sleeps, dispatched, inflight, opLog, obs, obs_raised>>
retryVars == <<operation_type, failed_results, taken>>
storeVars == <<store, writes, saveLog, history>>
validationVars == <<validation_type, validation_result, environment, path>>
clientVars == <<rate_limit_remaining, rate_limit_reset, clock, last_call>>

\* ---------------------------------------------------------------- helpers
Min(a, b) == IF a < b THEN a ELSE b

\* students[a:b] of Python (0-based, end exclusive, clipped to the list).
Slice(s, a, b) == SubSeq(s, a + 1, Min(b, Len(s)))

\* The roster load_project_data returns: n distinct students in file order.
Roster(n) == [x \in 1..n |-> x]

\* A per-entity result dict: 'status', 'student' (or 'item'), 'error'.
Result(status, student, error) ==
    [status |-> status, student |-> student, item |-> 0, error |-> error]

\* What a per-entity operation may do: return a dict with a status, or raise.
Returns(status, error) == [raises |-> FALSE, status |-> status, error |-> error]
Raises(msg) == [raises |-> TRUE, status |-> Absent, error |-> msg]

create_student_folder ==
    {Returns("success", Absent), Returns("partial", Absent), Returns("error", "folder error")}
    \cup {Raises(m) : m \in ExcMessages}

create_student_issues ==
    {Returns("success", Absent), Returns("error", "issue error")}
    \cup {Raises(m) : m \in ExcMessages}

send_student_invitation ==
    {Returns("success", Absent), Returns("failed", "invitation failed"),
     Returns("error", "invitation error")}
    \cup {Raises(m) : m \in ExcMessages}

\* StudentManager has no method track_student_progress: the call raises.
track_student_progress == {Raises("AttributeError")}

Operation(k) ==
    CASE k = FOLDERS -> create_student_folder
      [] k = ISSUES -> create_student_issues
      [] k = INVITATIONS -> send_student_invitation
      [] k = PROGRESS -> track_student_progress
      [] OTHER -> create_student_folder

\* ------------------------------------------------------- progress tracker
\* Who is handed a dict by the tracker: the thread that calls
\* get_progress_status() and the observer (progress_callback).
Holders == {"reader", "observer"}

\* A plausible slip: the tracker's own dict is handed out.
copy_sameObject(pd) == [taken |-> TRUE, shared |-> TRUE, data |-> pd, edits |-> 0]

\* self.progress_data.copy(): a new dict with the same items (all its values are
\* numbers, strings and None). shared says whether the dict handed out is the
\* object self.progress_data refers to, data is what a dict of its own holds,
\* edits counts the holder's writes to it.
copy(pd) == [taken |-> TRUE, shared |-> FALSE, data |-> pd, edits |-> 0]

\* What a holder reads in its dict, pd being the tracker's progress_data.
Content(h, pd) == IF h.shared THEN pd ELSE h.data

\* self.progress_data = {...} in _initialize_progress: the attribute is bound to a
\* new dict, a dict handed out before keeps the items it had (pd).
Rebound(h, pd) == [h EXCEPT !.shared = FALSE, !.data = Content(h, pd)]

\* A write of the holder to its dict: snapshot['processed_items'] = 0.
Edit(d) == [d EXCEPT !.processed_items = 0]

IdleProgress ==
    [total_items |-> 0, processed_items |-> 0, successful_items |-> 0,
     failed_items |-> 0, start_time |-> None, end_time |-> None,
     status |-> "idle", progress_percentage |-> None, duration_seconds |-> None]

\* No dict handed out yet.
NotTaken == [taken |-> FALSE, shared |-> FALSE, data |-> IdleProgress, edits |-> 0]

_initialize_progress(total) ==
    [total_items |-> total, processed_items |-> 0, successful_items |-> 0,
     failed_items |-> 0, start_time |-> now, end_time |-> None,
     status |-> "running", progress_percentage |-> 0, duration_seconds |-> None]

\* Lines 791-796: the counters of one recorded outcome.
IncrementProcessed(pd) == [pd EXCEPT !.processed_items = @ + 1]

IncrementOutcome(pd, success) ==
    IF success THEN [pd EXCEPT !.successful_items = @ + 1]
    ELSE [pd EXCEPT !.failed_items = @ + 1]

\* Lines 798-801: (processed / total) * 100, kept here to whole percents (floor).
Percentage(pd) ==
    IF pd.total_items > 0
    THEN [pd EXCEPT !.progress_percentage = (pd.processed_items * 100) \div pd.total_items]
    ELSE pd

_finalize_progress(pd, status) ==
    LET stamped == [pd EXCEPT !.status = status, !.end_time = now]
    IN IF pd.start_time # None
       THEN [stamped EXCEPT !.duration_seconds = now - pd.start_time]
       ELSE stamped

Terminal == {"completed", "error", "cancelled"}

\* ------------------------------------------------------------ results dict
\* results['summary'] = {} until the summary is generated.
NoSummary ==
    [total_processed |-> None, successful_count |-> None, failed_count |-> None,
     partial_success_count |-> None, success_rate |-> None, duration_seconds |-> None]

EmptyResults ==
    [successful |-> <<>>, failed |-> <<>>, partial_success |-> <<>>,
     total_processed |-> 0, total_retried |-> None, summary |-> NoSummary]

\* retry_results of retry_failed_operations: no 'total_processed', 'total_retried' set.
RetryResults(n) == [EmptyResults EXCEPT !.total_processed = None, !.total_retried = n]

_generate_summary(r, pd) ==
    LET total == Len(r.successful) + Len(r.failed) + Len(r.partial_success)
    IN [total_processed |-> total,
        successful_count |-> Len(r.successful),
        failed_count |-> Len(r.failed),
        partial_success_count |-> Len(r.partial_success),
        success_rate |-> IF total > 0 THEN (Len(r.successful) * 100) \div total ELSE 0,
        duration_seconds |-> pd.duration_seconds]

\* No get_bulk_operation_history() call yet.
NoHistory == [operation_type |-> <<>>, limit |-> 0, records |-> <<>>]

\* ------------------------------------- validate_bulk_operation_prerequisites
\* 'remaining < 100' of the validation and of wait_for_rate_limit.
LowWatermark == 100
\* self.rate_limit_remaining = 5000 of GitHubClient.__init__.
DefaultRemaining == 5000
\* The conservative default check_rate_limit falls back to.
ConservativeRemaining == 1000
\* timedelta(hours=1) and the cap of one wait, in seconds.
Hour == 3600
\* 'len(students) > 200' of the validation.
LargeRoster == 200

\* The operation_type values validation is asked for: the bulk operations, main's
\* 'full_setup' and the operation that creates the repository.
FULL_SETUP == "full_setup"
CREATE_REPOSITORIES == "bulk_create_repositories"
ValidationTypes == BulkOperations \cup {FULL_SETUP, CREATE_REPOSITORIES}

\* Line 501: the operations whose validation looks the repository up.
RepositoryOperations == {FOLDERS, ISSUES, INVITATIONS}

\* The keys of validation_result['checks'].
CheckNames ==
    {"project_data", "repository_access", "github_api", "rate_limit", "supervisors",
     "disk_space", "validation"}

\* A value of validation_result['checks']: its status word and the number it quotes.
Check(status, detail) == [status |-> status, detail |-> detail]
NoCheck == Check(Absent, None)

\* Lines 469-474: the report validation starts from. 'exc' is an exception on its
\* way to the outer handler (none in a report that is returned).
NewReport ==
    [valid |-> TRUE, errors |-> <<>>, warnings |-> <<>>,
     checks |-> [c \in CheckNames |-> NoCheck], exc |-> Absent]

\* An entry of 'errors' or 'warnings': the message, and the student position, the
\* field or configuration path and the number it quotes (0, Absent, None: none).
Finding(msg, x, what, number) == [msg |-> msg, student |-> x, what |-> what, number |-> number]

\* A plausible slip: an error is appended and 'valid' is left as it was.
AddError_keepsValid(vr, msg, what) ==
    [vr EXCEPT !.errors = Append(@, Finding(msg, 0, what, None))]

\* validation_result['errors'].append(...); validation_result['valid'] = False
AddError(vr, msg, what) ==
    [vr EXCEPT !.errors = Append(@, Finding(msg, 0, what, None)), !.valid = FALSE]

\* validation_result['warnings'].append(...)
AddWarning(vr, msg, x, what, number) ==
    [vr EXCEPT !.warnings = Append(@, Finding(msg, x, what, number))]

\* validation_result['checks'][name] = value
SetCheck(vr, name, value) == [vr EXCEPT !.checks[name] = value]

\* The fields of a loaded student the validation looks at; a student is modelled by
\* which of them are present and not empty.
Fields == {"index_number", "research_area", "email", "github_username"}
RequiredFields == <<"index_number", "research_area", "email">>

\* load_project_data skips a row without index_number or research_area, so every
\* student it returns has both.
LoadedStudents == {s \in [Fields -> BOOLEAN] : s["index_number"] /\ s["research_area"]}

\* The lists load_project_data may return.
LoadedRosters == UNION {[1..m -> LoadedStudents] : m \in 0..MaxValidated}

\* What load_project_data does: it returns a list or raises.
Loads == {[raises |-> FALSE, students |-> l] : l \in LoadedRosters}
         \cup {[raises |-> TRUE, students |-> <<>>]}

\* Lines 478-493: the CSV check. A load that raises ends validation (line 493).
ProjectDataCheck(vr, load) ==
    IF load.raises
    THEN SetCheck(AddError(vr, "Cannot read project CSV", Absent), "project_data",
                  Check("FAILED", None))
    ELSE IF load.students = <<>>
    THEN AddError(vr, "No students found in CSV file", Absent)
    ELSE LET ok == SetCheck(vr, "project_data", Check("OK", Len(load.students)))
         IN IF Len(load.students) > LargeRoster
            THEN AddWarning(ok, "Large number of students", 0, Absent, Len(load.students))
            ELSE ok

\* A plausible slip: the repository is looked up for every operation_type.
GitHubCheck_everyOperation(vr, t, repo) ==
    IF vr.exc # Absent THEN vr
    ELSE IF ~repo
    THEN SetCheck(AddError(vr, "Repository does not exist", Absent), "repository_access",
                  Check("FAILED", None))
    ELSE SetCheck(vr, "repository_access", Check("OK", None))

\* Lines 496-514: the repository check. repo says whether get_repository returned
\* the repository (it returns None when the repository is absent and when the
\* request failed). The two config keys read here exist in every config a
\* BulkProcessor was built from.
GitHubCheck(vr, t, repo) ==
    IF vr.exc # Absent THEN vr
    ELSE IF t \in RepositoryOperations
    THEN IF ~repo /\ t # CREATE_REPOSITORIES
         THEN SetCheck(AddError(vr, "Repository does not exist", Absent), "repository_access",
                       Check("FAILED", None))
         ELSE SetCheck(vr, "repository_access", Check("OK", None))
    ELSE vr

\* The value check_rate_limit() returns: the method has no return statement.
ReturnsNone == [present |-> FALSE, remaining |-> None]

\* Lines 533-545: the quota check on the value check_rate_limit() returned.
RateLimitCheck(vr, rate_limit_info) ==
    IF vr.exc # Absent THEN vr
    ELSE LET remaining == IF rate_limit_info.present THEN rate_limit_info.remaining ELSE 0
         IN IF remaining < LowWatermark
            THEN SetCheck(AddWarning(vr, "Low GitHub rate limit", 0, Absent, remaining), "rate_limit",
                          Check("WARNING", None))
            ELSE SetCheck(vr, "rate_limit", Check("OK", remaining))

\* Lines 550-554: the warnings of student x for the required fields from f on.
RECURSIVE FieldWarnings(_, _, _, _)
FieldWarnings(vr, student, x, f) ==
    IF f > Len(RequiredFields) THEN vr
    ELSE FieldWarnings(IF ~student[RequiredFields[f]]
                       THEN AddWarning(vr, "Missing or empty field", x, RequiredFields[f], None)
                       ELSE vr,
                       student, x, f + 1)

\* A plausible slip: a student without a required field is a hard error.
RECURSIVE StudentDataCheck_errors(_, _, _, _)
StudentDataCheck_errors(vr, t, sts, x) ==
    IF vr.exc # Absent \/ x > Len(sts) THEN vr
    ELSE LET missing == \E f \in 1..Len(RequiredFields) : ~sts[x][RequiredFields[f]]
             fields == IF missing THEN AddError(vr, "Missing or empty field", Absent) ELSE vr
             user == IF t = INVITATIONS /\ ~sts[x]["github_username"]
                     THEN AddWarning(fields, "No GitHub username provided", x, "github_username", None)
                     ELSE fields
         IN StudentDataCheck_errors(user, t, sts, x + 1)

\* Lines 547-560: the scan of the students from position x on.
RECURSIVE StudentDataCheck(_, _, _, _)
StudentDataCheck(vr, t, sts, x) ==
    IF vr.exc # Absent \/ x > Len(sts) THEN vr
    ELSE LET fields == FieldWarnings(vr, sts[x], x, 1)
             user == IF t = INVITATIONS /\ ~sts[x]["github_username"]
                     THEN AddWarning(fields, "No GitHub username provided", x, "github_username", None)
                     ELSE fields
         IN StudentDataCheck(user, t, sts, x + 1)

\* Line 563: the configuration values that must be set.
RequiredConfig == <<"github.token", "github.organization", "repository.name">>
Configs == [{RequiredConfig[c] : c \in 1..Len(RequiredConfig)} -> BOOLEAN]

\* Lines 563-575: the configuration check from path c on. config says which values
\* are set; the keys themselves exist in every config a BulkProcessor was built from.
RECURSIVE ConfigCheck(_, _, _)
ConfigCheck(vr, config, c) ==
    IF vr.exc # Absent \/ c > Len(RequiredConfig) THEN vr
    ELSE ConfigCheck(IF ~config[RequiredConfig[c]]
                     THEN AddError(vr, "Configuration missing", RequiredConfig[c])
                     ELSE vr,
                     config, c + 1)

\* Lines 578-589: the supervisor check of bulk_send_invitations.
SupervisorCheck(vr, t, supervisors) ==
    IF vr.exc # Absent \/ t # INVITATIONS THEN vr
    ELSE IF supervisors = 0
    THEN SetCheck(AddWarning(vr, "No supervisors configured", 0, Absent, None), "supervisors",
                  Check("WARNING", None))
    ELSE SetCheck(vr, "supervisors", Check("OK", supervisors))

\* What shutil.disk_usage('.') may show.
Disks == {"ok", "low", "raises"}

\* A plausible slip: disk_usage is called outside a try block.
DiskCheck_unguarded(vr, disk) ==
    IF vr.exc # Absent THEN vr
    ELSE IF disk = "raises" THEN [vr EXCEPT !.exc = "OSError"]
    ELSE IF disk = "low"
    THEN SetCheck(AddWarning(vr, "Low disk space", 0, Absent, None), "disk_space", Check("WARNING", None))
    ELSE SetCheck(vr, "disk_space", Check("OK", None))

\* Lines 592-601: the disk check.
DiskCheck(vr, disk) ==
    IF vr.exc # Absent THEN vr
    ELSE IF disk = "raises" THEN SetCheck(vr, "disk_space", Check("UNKNOWN", None))
    ELSE IF disk = "low"
    THEN SetCheck(AddWarning(vr, "Low disk space", 0, Absent, None), "disk_space", Check("WARNING", None))
    ELSE SetCheck(vr, "disk_space", Check("OK", None))

\* Lines 605-609: the outer handler turns an exception into a failed report.
OuterHandler(vr) ==
    IF vr.exc = Absent THEN vr
    ELSE SetCheck(AddError([vr EXCEPT !.exc = Absent], "Validation error", vr.exc),
                  "validation", Check("FAILED", None))

\* What a validation meets: the CSV load, whether get_repository finds the
\* repository, the server's reply to the quota query, which configuration values
\* are set, the number of supervisors configured and the disk.
Environments(loads, replies) ==
    [load : loads, repo : BOOLEAN, reply : replies, config : Configs,
     supervisors : 0..1, disk : Disks]

\* validate_bulk_operation_prerequisites(operation_type, project_csv_path) in the
\* environment env, rate_limit_info being what check_rate_limit() returned.
validate_bulk_operation_prerequisites(t, env, rate_limit_info) ==
    LET r1 == ProjectDataCheck(NewReport, env.load)
        r2 == GitHubCheck(r1, t, env.repo)
        r3 == RateLimitCheck(r2, rate_limit_info)
        r4 == StudentDataCheck(r3, t, env.load.students, 1)
        r5 == ConfigCheck(r4, env.config, 1)
        r6 == SupervisorCheck(r5, t, env.supervisors)
        r7 == DiskCheck(r6, env.disk)
    IN IF env.load.raises THEN r1 ELSE OuterHandler(r7)

\* ------------------------------------------------------------ GitHubClient
\* The instants of the client's clock and of reset times, in seconds.
Times == {k * (Hour \div 2) : k \in 0..MaxTime}

\* Quota values a server reports.
Remainings == {LowWatermark - 1, LowWatermark}

\* Reset times a server reports.
ServerResets == {Hour, MaxTime * (Hour \div 2)}

\* The server's reply to GET /rate_limit: status 200 with resources.core (ok), or
\* anything else (another status, another structure, a transport error).
QuotaReplies ==
    {[ok |-> TRUE, remaining |-> q, reset |-> t] : q \in Remainings, t \in ServerResets}
    \cup {[ok |-> FALSE, remaining |-> None, reset |-> None]}

\* A plausible slip: a failed query leaves the estimate as it was.
check_rate_limit_keepsEstimate(remaining, reset, reply) ==
    [rate_limit_remaining |-> IF reply.ok THEN reply.remaining ELSE remaining,
     rate_limit_reset |-> IF reply.ok THEN reply.reset ELSE reset,
     returned |-> ReturnsNone]

\* check_rate_limit(): the stored estimate after the query and the value returned.
check_rate_limit(remaining, reset, reply) ==
    [rate_limit_remaining |-> IF reply.ok THEN reply.remaining ELSE ConservativeRemaining,
     rate_limit_reset |-> IF reply.ok THEN reply.reset ELSE reset,
     returned |-> ReturnsNone]

\* wait_for_rate_limit(): below the watermark and with the reset time ahead, sleep
\* min(wait_time, 3600) and query the quota again.
wait_for_rate_limit(remaining, reset, clk, reply) ==
    LET wait_time == reset - clk
        slept == Min(wait_time, Hour)
        q == check_rate_limit(remaining, reset, reply)
    IN IF remaining < LowWatermark /\ wait_time > 0
       THEN [rate_limit_remaining |-> q.rate_limit_remaining,
             rate_limit_reset |-> q.rate_limit_reset,
             clock |-> clk + slept, slept |-> slept, requeried |-> TRUE, query_ok |-> reply.ok]
       ELSE [rate_limit_remaining |-> remaining, rate_limit_reset |-> reset,
             clock |-> clk, slept |-> 0, requeried |-> FALSE, query_ok |-> FALSE]

\* What session.request does: it raises a RequestException (error) or returns a
\* response with a status code, with or without the rate-limit headers
\* (X-RateLimit-Remaining, X-RateLimit-Reset).
Responses ==
    {[error |-> TRUE, status |-> None, metadata |-> FALSE, remaining |-> None, reset |-> None]}
    \cup {[error |-> FALSE, status |-> st, metadata |-> FALSE, remaining |-> None, reset |-> None] :
             st \in {200, 201, 404}}
    \cup {[error |-> FALSE, status |-> st, metadata |-> TRUE, remaining |-> q, reset |-> t] :
             st \in {200, 201, 404}, q \in Remainings, t \in ServerResets}

\* make_request(): wait_for_rate_limit(), then the request; the estimate after it,
\* whether the RequestException is raised to the caller, and the response.
make_request(remaining, reset, clk, reply, response) ==
    LET w == wait_for_rate_limit(remaining, reset, clk, reply)
    IN [rate_limit_remaining |-> IF ~response.error /\ response.metadata
                                 THEN response.remaining ELSE w.rate_limit_remaining,
        rate_limit_reset |-> w.rate_limit_reset,
        clock |-> w.clock, slept |-> w.slept, requeried |-> w.requeried,
        query_ok |-> w.query_ok,
        sent |-> [rate_limit_remaining |-> w.rate_limit_remaining,
                  rate_limit_reset |-> w.rate_limit_reset],
        raised |-> response.error, response |-> response]

\* No call made on the client yet.
NoCall ==
    [name |-> "none", before |-> [rate_limit_remaining |-> None, rate_limit_reset |-> None, clock |-> None],
     slept |-> 0, requeried |-> FALSE, query_ok |-> FALSE,
     sent |-> [rate_limit_remaining |-> None, rate_limit_reset |-> None],
     raised |-> FALSE, value |-> FALSE,
     response |-> [error |-> FALSE, status |-> None, metadata |-> FALSE, remaining |-> None,
                   reset |-> None]]

\* The record of a call: the estimate and the clock before it, and what it did
\* (query_ok: whether the quota query the call made, if any, was answered).
Call(name, m, raised, value) ==
    [name |-> name,
     before |-> [rate_limit_remaining |-> rate_limit_remaining,
                 rate_limit_reset |-> rate_limit_reset, clock |-> clock],
     slept |-> m.slept, requeried |-> m.requeried, query_ok |-> m.query_ok, sent |-> m.sent,
     raised |-> raised, value |-> value, response |-> m.response]

\* No validation made yet.
NoEnvironment ==
    [load |-> [raises |-> FALSE, students |-> <<>>], repo |-> FALSE,
     reply |-> [ok |-> FALSE, remaining |-> None, reset |-> None],
     config |-> [c \in {RequiredConfig[c] : c \in 1..Len(RequiredConfig)} |-> FALSE],
     supervisors |-> 0, disk |-> "ok"]

\* -------------------------------------------------------------------- Init
Init ==
    /\ max_workers \in {1, DefaultWorkers}
    /\ batch_size \in 0..MaxBatch
    /\ progress_data = IdleProgress
    /\ progress_lock = "free"
    /\ now = 0
    /\ pc = "idle"
    /\ kind = FOLDERS
    /\ callback = "none"
    /\ students = <<>>
    /\ phase = "students"
    /\ i = 0
    /\ batch = <<>>
    /\ j = 0
    /\ batch_results = <<>>
    /\ all_results = <<>>
    /\ results = EmptyResults
    /\ pending = FALSE
    /\ ret = "none"
    /\ cancel_ret = FALSE
    /\ cancel_calls = 0
    /\ snap = IdleProgress
    /\ runs = 0
    /\ sleeps = 0
    /\ dispatched = 0
    /\ inflight = {}
    /\ opLog = <<>>
    /\ obs = <<>>
    /\ obs_raised = 0
    /\ cancelAt = None
    /\ operation_type = FOLDER_CREATION
    /\ failed_results = <<>>
    /\ taken = 0
    /\ store = {}
    /\ writes = 0
    /\ saveLog = <<>>
    /\ history = NoHistory
    /\ validation_type = "none"
    /\ validation_result = NewReport
    /\ environment = NoEnvironment
    /\ path = "none"
    /\ rate_limit_remaining = DefaultRemaining
    /\ rate_limit_reset = Hour
    /\ clock = 0
    /\ last_call = NoCall
    /\ held = [w \in Holders |-> NotTaken]

\* ------------------------------------------------------- the caller thread
\* A bulk operation is called: load_project_data returns the roster or raises.
Begin(k, n, cb, loaded) ==
    /\ pc = "idle"
    /\ loaded \/ k \in BulkOperations
    /\ runs' = runs + 1
    /\ kind' = k
    /\ callback' = IF k = BATCH THEN "none" ELSE cb
    /\ students' = IF loaded THEN Roster(n) ELSE <<>>
    /\ pc' = IF ~loaded THEN "failed" ELSE IF k = BATCH THEN "batch" ELSE "initialize"
    /\ phase' = "students"
    /\ i' = 0
    /\ batch' = <<>>
    /\ j' = 0
    /\ batch_results' = <<>>
    /\ all_results' = <<>>
    /\ results' = EmptyResults
    /\ pending' = FALSE
    /\ ret' = "none"
    /\ sleeps' = 0
    /\ dispatched' = 0
    /\ inflight' = {}
    /\ opLog' = <<>>
    /\ obs' = <<>>
    /\ obs_raised' = 0
    /\ cancelAt' = None
    /\ failed_results' = <<>>
    /\ taken' = 0
    /\ saveLog' = <<>>
    /\ history' = NoHistory
    /\ held' = [held EXCEPT !.observer = NotTaken]
    /\ UNCHANGED <<configVars, validationVars, clientVars, operation_type, store, writes, progress_data,
                   progress_lock, now, cancel_ret, cancel_calls, snap>>

\* A plausible slip: the supervisors batch is not counted in the total.
TotalItems_studentsOnly(k, n) == n

\* The total a bulk operation announces: len(students), +1 for the supervisors batch.
TotalItems(k, n) == IF k = INVITATIONS THEN n + 1 ELSE n

\* len(students), or len(failed_results) in retry_failed_operations.
InputSize == IF kind = RETRY THEN Len(failed_results) ELSE Len(students)

\* self._initialize_progress(len(students), ...) under progress_lock.
InitializeProgress ==
    /\ pc = "initialize"
    /\ progress_lock = "free"
    /\ progress_data' = _initialize_progress(TotalItems(kind, InputSize))
    /\ held' = [w \in Holders |-> Rebound(held[w], progress_data)]
    /\ pc' = IF kind = RETRY THEN "retry_item" ELSE "batch"
    /\ UNCHANGED <<configVars, validationVars, clientVars, retryVars, storeVars, progress_lock, now, ret>>
    /\ UNCHANGED <<loopVars, callVars, ghostVars, cancel_ret, cancel_calls, snap, cancelAt>>

\* Where the caller goes when the batch loop is exhausted.
AfterLoop(k) ==
    CASE k = INVITATIONS -> "supervisors"
      [] k = BATCH -> "return"
      [] OTHER -> "summary"

\* for i in range(0, len(students), self.batch_size): batch = students[i:i + batch_size]
\* range() raises ValueError on a step of 0.
NextBatch ==
    /\ pc = "batch"
    /\ IF batch_size = 0
       THEN /\ pc' = IF kind = BATCH THEN "propagate" ELSE "failed"
            /\ UNCHANGED <<batch, j, batch_results>>
       ELSE IF i < Len(students)
       THEN /\ batch' = Slice(students, i, i + batch_size)
            /\ j' = 1
            /\ batch_results' = <<>>
            /\ pc' = "entity"
       ELSE /\ pc' = AfterLoop(kind)
            /\ UNCHANGED <<batch, j, batch_results>>
    /\ UNCHANGED <<configVars, validationVars, clientVars, retryVars, storeVars, now, ret, i, all_results, results, pending, phase>>
    /\ UNCHANGED <<trackerVars, callVars, otherThreads, ghostVars>>

\* for student in batch: the per-entity operation is called for batch[j].
Dispatch ==
    /\ pc = "entity"
    /\ j <= Len(batch)
    /\ inflight' = inflight \cup {batch[j]}
    /\ dispatched' = dispatched + 1
    /\ pc' = "operation"
    /\ UNCHANGED <<configVars, validationVars, clientVars, retryVars, storeVars, now, ret, sleeps, opLog, obs, obs_raised>>
    /\ UNCHANGED <<trackerVars, loopVars, callVars, otherThreads>>

\* A plausible slip: the handler records a fixed text, not str(e).
ErrorResult_fixedText(k, student, msg) ==
    IF k = BATCH
    THEN [status |-> Absent, student |-> 0, item |-> student, error |-> "operation failed"]
    ELSE [status |-> "error", student |-> student, item |-> 0, error |-> "operation failed"]

\* The dict the except handler of the entity loop builds from the exception.
ErrorResult(k, student, msg) ==
    IF k = BATCH
    THEN [status |-> Absent, student |-> 0, item |-> student, error |-> msg]
    ELSE Result("error", student, msg)

\* The dict one operation call leaves in the run: its return value or the handler's.
OutcomeResult(k, student, o) ==
    IF o.raises THEN ErrorResult(k, student, o.error)
    ELSE Result(o.status, student, o.error)

\* The success flag handed to _update_progress for an outcome: status == 'success',
\* and for bulk_update_progress 'error' not in the result; False in the handler.
SuccessFlag(k, o) ==
    /\ ~o.raises
    /\ IF k = PROGRESS THEN o.error = Absent ELSE o.status = "success"

\* A plausible slip: only 'failed' results are kept as failures, 'error' ones are lost.
Classify_dropsErrors(k, r, res) ==
    IF res.status = "success" THEN [r EXCEPT !.successful = Append(@, res)]
    ELSE IF res.status = "failed" THEN [r EXCEPT !.failed = Append(@, res)]
    ELSE r

\* Lines 110-113, 166-169, 242-247, 345-348: the list an outcome is appended to.
Classify(k, r, res) ==
    IF k = PROGRESS
    THEN IF res.error = Absent
         THEN [r EXCEPT !.successful = Append(@, res)]
         ELSE [r EXCEPT !.failed = Append(@, res)]
    ELSE IF res.status = "success" THEN [r EXCEPT !.successful = Append(@, res)]
    ELSE IF k = INVITATIONS /\ res.status = "partial_success"
    THEN [r EXCEPT !.partial_success = Append(@, res)]
    ELSE [r EXCEPT !.failed = Append(@, res)]

Count(r) == [r EXCEPT !.total_processed = @ + 1]

\* The operation for batch[j] returns or raises; the loop body records the outcome.
OperationEnds(o) ==
    /\ pc = "operation"
    /\ LET student == batch[j]
           res == OutcomeResult(kind, student, o)
       IN /\ inflight' = inflight \ {student}
          /\ opLog' = Append(opLog, [student |-> student, outcome |-> o])
          /\ pending' = SuccessFlag(kind, o)
          /\ IF kind = FOLDERS
             THEN /\ batch_results' = Append(batch_results, res)
                  /\ UNCHANGED <<all_results, results>>
             ELSE IF kind = BATCH
             THEN /\ all_results' = Append(all_results, res)
                  /\ UNCHANGED <<batch_results, results>>
             ELSE /\ results' = Count(Classify(kind, results, res))
                  /\ UNCHANGED <<batch_results, all_results>>
    /\ IF kind = BATCH
       THEN j' = j + 1 /\ pc' = "entity"
       ELSE j' = j /\ pc' = "update"
    /\ UNCHANGED <<configVars, validationVars, clientVars, retryVars, storeVars, now, ret, i, batch, phase, sleeps, dispatched, obs, obs_raised>>
    /\ UNCHANGED <<trackerVars, callVars, otherThreads>>

\* _update_progress, first half: take progress_lock, processed_items += increment.
UpdateProcessed ==
    /\ pc = "update"
    /\ progress_lock = "free"
    /\ progress_lock' = "caller"
    /\ progress_data' = IncrementProcessed(progress_data)
    /\ pc' = "update_outcome"
    /\ UNCHANGED <<configVars, validationVars, clientVars, retryVars, storeVars, now, ret>>
    /\ UNCHANGED <<loopVars, callVars, otherThreads, ghostVars>>

\* A plausible slip: the observer is told of successes only.
Observed_successOnly(cb, success) == cb = "set" /\ success

\* Line 804: if callback.
Observed(cb, success) == cb = "set"

\* A plausible slip: no try/except around the callback, its exception leaves
\* _update_progress and reaches the bulk operation's outer handler.
InvokeCallback_unguarded(pd, raised) == [snapshot |-> pd, propagates |-> raised]

\* Lines 805-808: the callback gets a copy; what it raises is caught and logged.
InvokeCallback(pd, raised) == [snapshot |-> pd, propagates |-> FALSE]

\* _update_progress, second half: successful/failed, percentage, callback, unlock.
UpdateOutcome(raised) ==
    /\ pc = "update_outcome"
    /\ LET pd == Percentage(IncrementOutcome(progress_data, pending))
           called == Observed(callback, pending)
           call == InvokeCallback(pd, raised)
       IN /\ raised => called
          /\ progress_data' = pd
          /\ obs' = IF called THEN Append(obs, call.snapshot) ELSE obs
          /\ held' = IF called THEN [held EXCEPT !.observer = copy(call.snapshot)] ELSE held
          /\ obs_raised' = IF called /\ raised THEN obs_raised + 1 ELSE obs_raised
          /\ IF called /\ call.propagates
             THEN pc' = "failed" /\ j' = j
             ELSE IF kind = RETRY
             THEN pc' = (IF phase = "retry_result" THEN "retry_sleep" ELSE "retry_item") /\ j' = j
             ELSE IF phase = "students"
             THEN pc' = "entity" /\ j' = j + 1
             ELSE pc' = "summary" /\ j' = j
    /\ progress_lock' = "free"
    /\ UNCHANGED <<configVars, validationVars, clientVars, retryVars, storeVars, now, ret, i, batch, batch_results, all_results, results,
                   pending, phase, sleeps, dispatched, inflight, opLog>>
    /\ UNCHANGED <<callVars, cancel_ret, cancel_calls, snap, cancelAt>>

\* A plausible slip: sleep after every batch, the last one included.
SleepsAfterBatch_everyBatch(idx, size, n) == idx < n

\* Lines 103-106: sleep between batches when another batch follows.
SleepsAfterBatch(idx, size, n) == idx + size < n

\* A plausible slip: the newest batch's results are put first.
Extend_prepends(all, more) == more \o all

\* Line 101: all_results.extend(batch_results).
Extend(all, more) == all \o more

\* End of a batch: all_results.extend(batch_results); the inter-batch delay.
BatchEnd ==
    /\ pc = "entity"
    /\ j > Len(batch)
    /\ all_results' = IF kind = FOLDERS THEN Extend(all_results, batch_results) ELSE all_results
    /\ sleeps' = IF SleepsAfterBatch(i, batch_size, Len(students)) THEN sleeps + 1 ELSE sleeps
    /\ i' = i + batch_size
    /\ pc' = "batch"
    /\ UNCHANGED <<configVars, validationVars, clientVars, retryVars, storeVars, now, ret, batch, j, batch_results, results, pending, phase,
                   dispatched, inflight, opLog, obs, obs_raised>>
    /\ UNCHANGED <<trackerVars, callVars, otherThreads>>

\* What send_supervisors_invitations does: it returns empty lists (no supervisor
\* with a username) or raises (it calls send_repository_invitation with 4 arguments).
send_supervisors_invitations == {Returns("empty", Absent), Raises("TypeError")}

\* Lines 266-285: the supervisor step of bulk_send_invitations.
SupervisorsStep(o) ==
    /\ pc = "supervisors"
    /\ results' = IF o.raises
                  THEN [results EXCEPT !.failed = Append(@, Result("error", 0, o.error))]
                  ELSE results
    /\ pending' = FALSE
    /\ phase' = "supervisors"
    /\ pc' = "update"
    /\ UNCHANGED <<configVars, validationVars, clientVars, retryVars, storeVars, now, ret, i, batch, j, batch_results, all_results>>
    /\ UNCHANGED <<trackerVars, callVars, otherThreads, ghostVars>>

\* Lines 109-114 of bulk_create_student_folders: all_results sorted into the dict.
RECURSIVE Collect(_, _)
Collect(r, rs) ==
    IF rs = <<>> THEN r
    ELSE Collect(Count(Classify(FOLDERS, r, Head(rs))), Tail(rs))

\* results['summary'] = self._generate_summary(results), before the run is finalized.
Summary ==
    /\ pc = "summary"
    /\ LET r == IF kind = FOLDERS THEN Collect(results, all_results) ELSE results
       IN results' = [r EXCEPT !.summary = _generate_summary(r, progress_data)]
    /\ pc' = "finalize"
    /\ UNCHANGED <<configVars, validationVars, clientVars, retryVars, storeVars, now, ret, i, batch, j, batch_results, all_results, pending, phase>>
    /\ UNCHANGED <<trackerVars, callVars, otherThreads, ghostVars>>

\* self._finalize_progress('completed') under progress_lock.
FinalizeCompleted ==
    /\ pc = "finalize"
    /\ progress_lock = "free"
    /\ progress_data' = _finalize_progress(progress_data, "completed")
    /\ pc' = "save"
    /\ UNCHANGED <<configVars, validationVars, clientVars, retryVars, storeVars, progress_lock, now, ret>>
    /\ UNCHANGED <<loopVars, callVars, otherThreads, ghostVars>>

\* ------------------------------------------------------------- persistence
\* The operation_name a run is saved under, as the words of the file name:
\* 'bulk_create_student_folders', ..., or f'retry_{operation_type}'.
OperationName(k, t) == IF k = RETRY THEN <<"retry", t>> ELSE <<k>>

\* A file of data/bulk_operations: f'{operation_name}_{timestamp}.json' (latest
\* FALSE, stamp the clock's second) or f'latest_{operation_name}.json'; data is
\* the dumped results dict, run the bulk call that wrote it.
BulkFile(name, latest, stamp, data, run) ==
    [name |-> name, latest |-> latest, stamp |-> IF latest THEN None ELSE stamp,
     data |-> data, run |-> run, mtime |-> 0]

\* The path of a file: two files with the same path are the same file.
FilePath(f) == <<f.name, f.latest, f.stamp>>

\* A plausible slip: save_progress_data lets the write's exception out.
save_progress_data_reraises(ok) == [written |-> ok, propagates |-> ~ok]

\* save_progress_data: open(filepath, 'w') and json.dump inside try/except Exception;
\* a failure is logged and the call returns.
save_progress_data(ok) == [written |-> ok, propagates |-> FALSE]

\* open(filepath, 'w'): the file at that path is replaced, its mtime is the newest.
WriteFile(files, f, seq) == {g \in files : FilePath(g) # FilePath(f)} \cup {[f EXCEPT !.mtime = seq]}

\* _save_bulk_results: os.makedirs, the timestamped write, then the latest write,
\* all inside try/except Exception. dirOk, ok1 and ok2 say which of them succeed.
\* Gives the files, the number of writes and the save_progress_data calls made.
_save_bulk_results(files, seq, data, name, run, dirOk, ok1, ok2) ==
    LET first == save_progress_data(ok1)
        second == save_progress_data(ok2)
        stamped == BulkFile(name, FALSE, now, data, run)
        latest == BulkFile(name, TRUE, now, data, run)
        files1 == IF first.written THEN WriteFile(files, stamped, seq + 1) ELSE files
        seq1 == IF first.written THEN seq + 1 ELSE seq
        call1 == [latest |-> FALSE, written |-> first.written]
        call2 == [latest |-> TRUE, written |-> second.written]
    IN IF ~dirOk
       THEN [store |-> files, writes |-> seq, saveLog |-> <<>>]
       ELSE IF first.propagates
       THEN [store |-> files1, writes |-> seq1, saveLog |-> <<call1>>]
       ELSE [store |-> IF second.written THEN WriteFile(files1, latest, seq1 + 1) ELSE files1,
             writes |-> IF second.written THEN seq1 + 1 ELSE seq1,
             saveLog |-> <<call1, call2>>]

\* Which of os.makedirs and the two writes succeed: without the directory no write
\* is tried.
SaveOutcomes == {o \in BOOLEAN \X BOOLEAN \X BOOLEAN : ~o[1] => (~o[2] /\ ~o[3])}
AllSaved == {<<TRUE, TRUE, TRUE>>}
NothingSaved == {<<FALSE, FALSE, FALSE>>}

\* self._save_bulk_results(results, operation_name) and return results.
SaveAndReturn(o) ==
    /\ pc = "save"
    /\ LET saved == _save_bulk_results(store, writes, results, OperationName(kind, operation_type),
                                       runs, o[1], o[2], o[3])
       IN /\ store' = saved.store
          /\ writes' = saved.writes
          /\ saveLog' = saved.saveLog
    /\ pc' = "idle"
    /\ ret' = "returned"
    /\ UNCHANGED <<configVars, validationVars, clientVars, retryVars, history, now>>
    /\ UNCHANGED <<trackerVars, loopVars, callVars, otherThreads, ghostVars>>

\* The outer handler: except Exception: self._finalize_progress('error'); raise.
FinalizeError ==
    /\ pc = "failed"
    /\ progress_lock = "free"
    /\ progress_data' = _finalize_progress(progress_data, "error")
    /\ pc' = "idle"
    /\ ret' = "raised"
    /\ UNCHANGED <<configVars, validationVars, clientVars, retryVars, storeVars, progress_lock, now>>
    /\ UNCHANGED <<loopVars, callVars, otherThreads, ghostVars>>

\* batch_process returns its results, or range()'s ValueError reaches its caller.
BatchProcessEnds ==
    /\ pc \in {"return", "propagate"}
    /\ ret' = IF pc = "return" THEN "returned" ELSE "raised"
    /\ pc' = "idle"
    /\ UNCHANGED <<configVars, validationVars, clientVars, retryVars, storeVars, now>>
    /\ UNCHANGED <<trackerVars, loopVars, callVars, otherThreads, ghostVars>>

\* ------------------------------------------------- retry_failed_operations
\* retry_failed_operations(failed_results, operation_type, progress_callback) is called.
BeginRetry(items, t, cb) ==
    /\ pc = "idle"
    /\ runs' = runs + 1
    /\ kind' = RETRY
    /\ operation_type' = t
    /\ failed_results' = items
    /\ taken' = 0
    /\ callback' = cb
    /\ students' = <<>>
    /\ pc' = "initialize"
    /\ phase' = "retry_result"
    /\ i' = 0
    /\ batch' = <<>>
    /\ j' = 0
    /\ batch_results' = <<>>
    /\ all_results' = <<>>
    /\ results' = RetryResults(Len(items))
    /\ pending' = FALSE
    /\ ret' = "none"
    /\ sleeps' = 0
    /\ dispatched' = 0
    /\ inflight' = {}
    /\ opLog' = <<>>
    /\ obs' = <<>>
    /\ obs_raised' = 0
    /\ cancelAt' = None
    /\ saveLog' = <<>>
    /\ history' = NoHistory
    /\ held' = [held EXCEPT !.observer = NotTaken]
    /\ UNCHANGED <<configVars, validationVars, clientVars, store, writes, progress_data, progress_lock, now,
                   cancel_ret, cancel_calls, snap>>

\* The entry the inner handler and the no-student branch append: 'error' and
\* 'original_item', no 'status' and no 'student'.
RetryError(msg, failed_item) ==
    [status |-> Absent, student |-> 0, item |-> 0, error |-> msg, original_item |-> failed_item]

\* A plausible slip: an item without a student is skipped.
NoStudentData_skipped(failed_item) == <<>>

\* Lines 628-633: what an item without a student adds to retry_results['failed'].
NoStudentData(failed_item) == <<RetryError("No student data in failed item", failed_item)>>

\* A plausible slip: the operation is looked up in a table and the lookup raises.
UnknownType_raises(t) == Raises("KeyError")

\* Lines 649-650: the result made up for an operation_type no branch handles.
UnknownType(t) == Returns("error", "Unknown operation type")

\* send_repository_invitation returns 'success', 'failed' or 'error', or raises.
send_repository_invitation ==
    {Returns("success", Absent), Returns("failed", "invitation failed"),
     Returns("error", "invitation error")}
    \cup {Raises(m) : m \in ExcMessages}

\* Lines 637-647: the operation a registered operation_type dispatches to.
\* StudentManager has no track_student_progress: 'progress_update' raises
\* AttributeError before any operation is called.
RetryOperation(t) ==
    CASE t = FOLDER_CREATION -> create_student_folder
      [] t = INVITATION_SENDING -> send_repository_invitation
      [] t = ISSUE_CREATION -> create_student_issues
      [] OTHER -> {}

\* Lines 652-661: a returned result goes to 'successful' when its status is
\* 'success' and to 'failed' otherwise.
RetryClassify(res, rr) ==
    IF res.status = "success" THEN [rr EXCEPT !.successful = Append(@, res)]
    ELSE [rr EXCEPT !.failed = Append(@, res)]

\* for failed_item in failed_results: the next item is taken; an item without a
\* student, an unknown operation_type and 'progress_update' are settled at once,
\* any other item starts its operation.
RetryNext ==
    /\ pc = "retry_item"
    /\ IF taken < Len(failed_results)
       THEN LET failed_item == failed_results[taken + 1]
                unknown == UnknownType(operation_type)
            IN /\ taken' = taken + 1
               /\ IF failed_item.student = 0
                  THEN /\ results' = [results EXCEPT !.failed = @ \o NoStudentData(failed_item)]
                       /\ phase' = "retry_skip"
                       /\ pc' = "update"
                       /\ UNCHANGED <<dispatched, inflight>>
                  ELSE IF RetryOperation(operation_type) # {}
                  THEN /\ pc' = "retry_operation"
                       /\ dispatched' = dispatched + 1
                       /\ inflight' = inflight \cup {failed_item.student}
                       /\ UNCHANGED <<results, phase>>
                  ELSE IF operation_type = PROGRESS_UPDATE
                  THEN /\ results' = [results EXCEPT
                                        !.failed = Append(@, RetryError("AttributeError", failed_item))]
                       /\ phase' = "retry_raised"
                       /\ pc' = "update"
                       /\ UNCHANGED <<dispatched, inflight>>
                  ELSE IF unknown.raises
                  THEN /\ results' = [results EXCEPT
                                        !.failed = Append(@, RetryError(unknown.error, failed_item))]
                       /\ phase' = "retry_raised"
                       /\ pc' = "update"
                       /\ UNCHANGED <<dispatched, inflight>>
                  ELSE /\ results' = RetryClassify(Result(unknown.status, 0, unknown.error), results)
                       /\ phase' = "retry_result"
                       /\ pc' = "update"
                       /\ UNCHANGED <<dispatched, inflight>>
               /\ pending' = FALSE
       ELSE /\ pc' = "summary"
            /\ UNCHANGED <<taken, results, phase, dispatched, inflight, pending>>
    /\ UNCHANGED <<configVars, validationVars, clientVars, operation_type, failed_results, storeVars, now, ret>>
    /\ UNCHANGED <<i, batch, j, batch_results, all_results, sleeps, opLog, obs, obs_raised>>
    /\ UNCHANGED <<trackerVars, callVars, otherThreads>>

\* The operation of the item taken returns or raises; lines 652-671 record it.
RetryOperationEnds(o) ==
    /\ pc = "retry_operation"
    /\ LET failed_item == failed_results[taken]
           student == failed_item.student
       IN /\ inflight' = inflight \ {student}
          /\ opLog' = Append(opLog, [student |-> student, outcome |-> o])
          /\ IF o.raises
             THEN /\ results' = [results EXCEPT !.failed = Append(@, RetryError(o.error, failed_item))]
                  /\ phase' = "retry_raised"
                  /\ pending' = FALSE
             ELSE /\ results' = RetryClassify(Result(o.status, student, o.error), results)
                  /\ phase' = "retry_result"
                  /\ pending' = (o.status = "success")
    /\ pc' = "update"
    /\ UNCHANGED <<configVars, validationVars, clientVars, retryVars, storeVars, now, ret>>
    /\ UNCHANGED <<i, batch, j, batch_results, all_results, sleeps, dispatched, obs, obs_raised>>
    /\ UNCHANGED <<trackerVars, callVars, otherThreads>>

\* Line 664: time.sleep(1) after an item whose result was recorded.
RetrySleep ==
    /\ pc = "retry_sleep"
    /\ sleeps' = sleeps + 1
    /\ pc' = "retry_item"
    /\ UNCHANGED <<configVars, validationVars, clientVars, retryVars, storeVars, now, ret>>
    /\ UNCHANGED <<dispatched, inflight, opLog, obs, obs_raised>>
    /\ UNCHANGED <<trackerVars, loopVars, callVars, otherThreads>>

\* ----------------------------------------------------------- other threads
\* A plausible slip: anything but an idle tracker is cancelled.
cancel_running_operation_notIdle ==
    /\ progress_lock = "free"
    /\ IF progress_data.status # "idle"
       THEN /\ progress_data' = [progress_data EXCEPT !.status = "cancelled", !.end_time = now]
            /\ cancel_ret' = TRUE
            /\ cancelAt' = dispatched
       ELSE /\ cancel_ret' = FALSE
            /\ UNCHANGED <<progress_data, cancelAt>>
    /\ cancel_calls' = 1 - cancel_calls
    /\ UNCHANGED <<configVars, validationVars, clientVars, retryVars, storeVars, progress_lock, now, pc, ret, snap, held>>
    /\ UNCHANGED <<loopVars, callVars, ghostVars>>

\* cancel_running_operation(), called by another thread while progress_lock is free.
cancel_running_operation ==
    /\ progress_lock = "free"
    /\ IF progress_data.status = "running"
       THEN /\ progress_data' = [progress_data EXCEPT !.status = "cancelled", !.end_time = now]
            /\ cancel_ret' = TRUE
            /\ cancelAt' = dispatched
       ELSE /\ cancel_ret' = FALSE
            /\ UNCHANGED <<progress_data, cancelAt>>
    /\ cancel_calls' = 1 - cancel_calls
    /\ UNCHANGED <<configVars, validationVars, clientVars, retryVars, storeVars, progress_lock, now, pc, ret, snap, held>>
    /\ UNCHANGED <<loopVars, callVars, ghostVars>>

\* A plausible slip: the copy is taken without holding progress_lock.
get_progress_status_unlocked ==
    /\ snap' = progress_data
    /\ held' = [held EXCEPT !.reader = copy(progress_data)]
    /\ UNCHANGED <<configVars, validationVars, clientVars, retryVars, storeVars, now, pc, ret, cancel_ret, cancel_calls, cancelAt>>
    /\ UNCHANGED <<trackerVars, loopVars, callVars, ghostVars>>

\* get_progress_status(): with self.progress_lock: return self.progress_data.copy()
get_progress_status ==
    /\ progress_lock = "free"
    /\ snap' = progress_data
    /\ held' = [held EXCEPT !.reader = copy(progress_data)]
    /\ UNCHANGED <<configVars, validationVars, clientVars, retryVars, storeVars, now, pc, ret, cancel_ret, cancel_calls, cancelAt>>
    /\ UNCHANGED <<trackerVars, loopVars, callVars, ghostVars>>

\* A holder writes to the dict it was handed.
MutateSnapshot(w) ==
    /\ held[w].taken
    /\ held[w].edits < MaxEdits
    /\ IF held[w].shared
       THEN /\ progress_data' = Edit(progress_data)
            /\ held' = [held EXCEPT ![w].edits = @ + 1]
       ELSE /\ held' = [held EXCEPT ![w].data = Edit(@), ![w].edits = @ + 1]
            /\ UNCHANGED progress_data
    /\ UNCHANGED <<configVars, validationVars, clientVars, retryVars, storeVars, progress_lock, now, pc, ret>>
    /\ UNCHANGED <<cancel_ret, cancel_calls, snap, cancelAt>>
    /\ UNCHANGED <<loopVars, callVars, ghostVars>>

\* self.progress_lock = threading.Lock(): acquire() succeeds on a free lock only;
\* a thread that holds the lock and acquires it again waits like any other.
Acquires(lock, thread) == lock = "free"

\* The methods of the BulkProcessor an observer may call from inside its callback.
Reentries == {"get_progress_status", "cancel_running_operation"}

\* _update_progress, second half, with an observer whose callback calls m on the
\* same BulkProcessor: the callback runs inside 'with self.progress_lock', and m
\* begins with 'with self.progress_lock'. When the lock cannot be acquired the
\* caller thread waits for it ("blocked"); otherwise m runs and the callback and
\* _update_progress return.
CallbackReenters(m) ==
    /\ pc = "update_outcome"
    /\ Observed(callback, pending)
    /\ LET pd == Percentage(IncrementOutcome(progress_data, pending))
           call == InvokeCallback(pd, FALSE)
           cancels == m = "cancel_running_operation" /\ pd.status = "running"
       IN /\ obs' = Append(obs, call.snapshot)
          /\ held' = [held EXCEPT !.observer = copy(call.snapshot)]
          /\ IF Acquires(progress_lock, "caller")
             THEN /\ progress_data' = IF cancels
                                      THEN [pd EXCEPT !.status = "cancelled", !.end_time = now]
                                      ELSE pd
                  /\ snap' = IF m = "get_progress_status" THEN pd ELSE snap
                  /\ cancelAt' = IF cancels THEN dispatched ELSE cancelAt
                  /\ progress_lock' = "free"
                  /\ pc' = IF kind = RETRY
                           THEN (IF phase = "retry_result" THEN "retry_sleep" ELSE "retry_item")
                           ELSE IF phase = "students" THEN "entity" ELSE "summary"
                  /\ j' = IF kind # RETRY /\ phase = "students" THEN j + 1 ELSE j
             ELSE /\ progress_data' = pd
                  /\ pc' = "blocked"
                  /\ UNCHANGED <<snap, cancelAt, progress_lock, j>>
    /\ UNCHANGED <<configVars, validationVars, clientVars, retryVars, storeVars, now, ret, i, batch, batch_results,
                   all_results, results, pending, phase, sleeps, dispatched, inflight, opLog,
                   obs_raised, cancel_ret, cancel_calls>>
    /\ UNCHANGED callVars

\* Time passes while an operation is in flight and between bulk calls.
Tick ==
    /\ now < MaxClock
    /\ pc \in {"operation", "idle"}
    /\ now' = now + 1
    /\ UNCHANGED <<configVars, validationVars, clientVars, retryVars, storeVars, pc, ret>>
    /\ UNCHANGED <<trackerVars, loopVars, callVars, otherThreads, ghostVars>>

\* ------------------------------------------------ get_bulk_operation_history
\* The words of a file name an operation name can match: the name it was saved
\* under, after 'latest' for the latest_ file (the timestamp and '.json' hold no
\* operation name).
FileWords(f) == IF f.latest THEN <<"latest">> \o f.name ELSE f.name

\* glob 'data/bulk_operations/*{operation_type}*.json': the file name contains the
\* pattern; '*.json' (no operation_type) matches every file.
Matches(pattern, f) ==
    \E a \in 1..(Len(FileWords(f)) - Len(pattern) + 1) :
        SubSeq(FileWords(f), a, a + Len(pattern) - 1) = pattern

\* A plausible slip: the sort is not reversed, the oldest file comes first.
RECURSIVE MostRecentFirst_oldestFirst(_)
MostRecentFirst_oldestFirst(files) ==
    IF files = {} THEN <<>>
    ELSE LET f == CHOOSE x \in files : \A g \in files : x.mtime <= g.mtime
         IN <<f>> \o MostRecentFirst_oldestFirst(files \ {f})

\* files.sort(key=os.path.getmtime, reverse=True)
RECURSIVE MostRecentFirst(_)
MostRecentFirst(files) ==
    IF files = {} THEN <<>>
    ELSE LET f == CHOOSE x \in files : \A g \in files : g.mtime <= x.mtime
         IN <<f>> \o MostRecentFirst(files \ {f})

\* Lines 961-968: the entry built from a file's JSON ('run' tells which bulk call
\* wrote the file).
HistoryEntry(f) ==
    [file_path |-> FilePath(f), operation |-> f.name, summary |-> f.data.summary,
     total_processed |-> f.data.summary.total_processed,
     success_rate |-> f.data.summary.success_rate, run |-> f.run]

\* The list get_bulk_operation_history(operation_type, limit) returns; pattern is
\* <<>> when no operation_type is given.
History(files, pattern, limit) ==
    LET sorted == MostRecentFirst({f \in files : Matches(pattern, f)})
    IN [x \in 1..Min(limit, Len(sorted)) |-> HistoryEntry(sorted[x])]

\* get_bulk_operation_history(operation_type, limit), asked between bulk calls (the
\* files change only when a bulk call saves).
get_bulk_operation_history(pattern, limit) ==
    /\ pc = "idle"
    /\ history' = [operation_type |-> pattern, limit |-> limit,
                   records |-> History(store, pattern, limit)]
    /\ UNCHANGED <<configVars, validationVars, clientVars, retryVars, store, writes, saveLog, now, pc, ret>>
    /\ UNCHANGED <<trackerVars, loopVars, callVars, otherThreads, ghostVars>>

\* main's handler of KeyboardInterrupt: the bulk call is abandoned where it is (a
\* lock it holds is released) and cancel_running_operation() is called.
KeyboardInterrupt ==
    /\ pc # "idle"
    /\ pc' = "idle"
    /\ ret' = "interrupted"
    /\ progress_lock' = "free"
    /\ inflight' = {}
    /\ IF progress_data.status = "running"
       THEN /\ progress_data' = [progress_data EXCEPT !.status = "cancelled", !.end_time = now]
            /\ cancel_ret' = TRUE
            /\ cancelAt' = dispatched
       ELSE /\ cancel_ret' = FALSE
            /\ UNCHANGED <<progress_data, cancelAt>>
    /\ cancel_calls' = 1 - cancel_calls
    /\ UNCHANGED <<configVars, validationVars, clientVars, retryVars, storeVars, now, snap, held>>
    /\ UNCHANGED <<sleeps, dispatched, opLog, obs, obs_raised>>
    /\ UNCHANGED <<loopVars, callVars>>

\* ------------------------------------------------- validation and main()
\* Everything a validation and a client call leave alone.
bulkVars ==
    <<configVars, trackerVars, loopVars, callVars, otherThreads, ghostVars, retryVars,
      storeVars, now, pc, ret>>

\* A call of validate_bulk_operation_prerequisites(t, ...) in the environment env.
\* The quota query is reached unless the CSV load raised; the lookup of the
\* repository leaves no trace in the report but its result.
Validation(t, env) ==
    /\ pc = "idle"
    /\ LET q == check_rate_limit(rate_limit_remaining, rate_limit_reset, env.reply)
       IN /\ validation_result' = validate_bulk_operation_prerequisites(t, env, q.returned)
          /\ rate_limit_remaining' =
                IF env.load.raises THEN rate_limit_remaining ELSE q.rate_limit_remaining
          /\ rate_limit_reset' = IF env.load.raises THEN rate_limit_reset ELSE q.rate_limit_reset
    /\ validation_type' = t
    /\ environment' = env
    /\ UNCHANGED <<clock, last_call>>
    /\ UNCHANGED bulkVars

\* The method called on its own.
ValidateCall(t, env) == Validation(t, env) /\ UNCHANGED path

\* main.py 515-521: --validate-bulk-operation validates and exits.
MainValidate(t, env) ==
    /\ path = "none"
    /\ Validation(t, env)
    /\ path' = "exit"

\* main.py 592-625: --full-setup validates as 'full_setup'; it goes on when the
\* report is valid and, if there are warnings, the user agrees (or --force).
MainFullSetup(env, proceed) ==
    /\ path = "none"
    /\ Validation(FULL_SETUP, env)
    /\ path' = IF validation_result'.valid /\ (validation_result'.warnings = <<>> \/ proceed)
               THEN "full_setup" ELSE "exit"

\* main.py 727-751: one of the bulk flags is given.
MainBulk ==
    /\ path = "none"
    /\ path' = "bulk"
    /\ UNCHANGED <<validation_type, validation_result, environment>>
    /\ UNCHANGED clientVars
    /\ UNCHANGED bulkVars

\* The first bulk operation main() calls on the branch it took: any of them after a
\* bulk flag, bulk_create_student_folders in the full setup (line 660).
MainBegins(k, n, loaded) ==
    /\ runs = 0
    /\ \/ path = "bulk"
       \/ path = "full_setup" /\ k = FOLDERS
    /\ Begin(k, n, "none", loaded)

\* --------------------------------------------------- GitHubClient, actions
\* GitHubClient.__init__: the defaults, then check_rate_limit().
NewGitHubClient(reply) ==
    /\ last_call.name = "none"
    /\ LET q == check_rate_limit(DefaultRemaining, clock + Hour, reply)
       IN /\ rate_limit_remaining' = q.rate_limit_remaining
          /\ rate_limit_reset' = q.rate_limit_reset
    /\ last_call' = [NoCall EXCEPT !.name = "__init__", !.query_ok = reply.ok]
    /\ UNCHANGED clock
    /\ UNCHANGED validationVars
    /\ UNCHANGED bulkVars

\* The client after the call whose make_request gave m.
ClientAfter(m) ==
    /\ rate_limit_remaining' = m.rate_limit_remaining
    /\ rate_limit_reset' = m.rate_limit_reset
    /\ clock' = m.clock
    /\ UNCHANGED validationVars
    /\ UNCHANGED bulkVars

\* A caller calls make_request directly (repo_manager.py 512).
MakeRequest(reply, response) ==
    /\ last_call.name # "none"
    /\ LET m == make_request(rate_limit_remaining, rate_limit_reset, clock, reply, response)
       IN /\ last_call' = Call("make_request", m, m.raised, ~m.raised)
          /\ ClientAfter(m)

\* create_repository: True on 201, False on another status and on any exception.
CreateRepository(reply, response) ==
    /\ last_call.name # "none"
    /\ LET m == make_request(rate_limit_remaining, rate_limit_reset, clock, reply, response)
       IN /\ last_call' = Call("create_repository", m, FALSE, ~m.raised /\ response.status = 201)
          /\ ClientAfter(m)

\* get_repository: the repository on 200, None on another status and on any exception.
GetRepository(reply, response) ==
    /\ last_call.name # "none"
    /\ LET m == make_request(rate_limit_remaining, rate_limit_reset, clock, reply, response)
       IN /\ last_call' = Call("get_repository", m, FALSE, ~m.raised /\ response.status = 200)
          /\ ClientAfter(m)

\* Time passes between two calls on the client.
ClientTick ==
    /\ clock + (Hour \div 2) \in Times
    /\ clock' = clock + (Hour \div 2)
    /\ UNCHANGED <<rate_limit_remaining, rate_limit_reset, last_call>>
    /\ UNCHANGED validationVars
    /\ UNCHANGED bulkVars

\* ------------------------------------------------------------ specifications
\* A bulk call has returned its results to the caller.
Returned == pc = "idle" /\ ret = "returned"

\* One step of the caller thread inside a student loop. behaviours[k] is what the
\* per-entity operation of k may do, Raising whether the observer may raise, Saving
\* which writes of _save_bulk_results may fail.
CallerStep(behaviours, Raising, Saving) ==
    \/ InitializeProgress
    \/ NextBatch
    \/ Dispatch
    \/ \E o \in behaviours[kind] : OperationEnds(o)
    \/ UpdateProcessed
    \/ \E raised \in Raising : UpdateOutcome(raised)
    \/ BatchEnd
    \/ Summary
    \/ FinalizeCompleted
    \/ \E o \in Saving : SaveAndReturn(o)
    \/ FinalizeError

\* The engine: one bulk call of any operation, any roster, any observer.
Next ==
    \/ /\ runs = 0
       /\ \E k \in Operations, n \in 0..MaxStudents, cb \in {"none", "set"}, loaded \in BOOLEAN :
             Begin(k, n, cb, loaded)
    \/ CallerStep([k \in Operations |-> Operation(k)], BOOLEAN, SaveOutcomes)
    \/ \E o \in send_supervisors_invitations : SupervisorsStep(o)
    \/ BatchProcessEnds

Spec == Init /\ [][Next]_vars

\* The tracker: successive bulk calls on one BulkProcessor while another thread
\* cancels; the per-entity operation succeeds or raises, and data/bulk_operations
\* cannot be created, so that no run leaves a file behind.
TrackedOperations == {FOLDERS, ISSUES}

TrackedBehaviour == [k \in Operations |-> {Returns("success", Absent), Raises("timeout")}]

InitTracker == Init /\ batch_size \in 0..MaxTrackedBatch

NextTracker ==
    \/ /\ runs < MaxRuns
       /\ \E k \in TrackedOperations, n \in 0..MaxTracked, loaded \in BOOLEAN :
             Begin(k, n, "set", loaded)
    \/ CallerStep(TrackedBehaviour, {FALSE}, NothingSaved)
    \/ cancel_running_operation
    \/ Tick

SpecTracker == InitTracker /\ [][NextTracker]_vars

\* The reader: one bulk call while other threads read and cancel.
NextReader ==
    \/ /\ runs = 0
       /\ \E k \in TrackedOperations, n \in 0..MaxTracked, loaded \in BOOLEAN :
             Begin(k, n, "set", loaded)
    \/ CallerStep(TrackedBehaviour, {FALSE}, NothingSaved)
    \/ cancel_running_operation
    \/ get_progress_status

SpecReader == InitTracker /\ [][NextReader]_vars

\* The retry: one retry_failed_operations call over any list of failed items, each
\* with or without a student, any operation_type, any observer.
RetryItem(e) == Result("error", e, "timeout")
SupervisorItem == [status |-> "error", student |-> 0, item |-> 0, error |-> "TypeError"]
RetryLists ==
    UNION {[1..n -> {RetryItem(e) : e \in 1..MaxRetried} \cup {SupervisorItem}] : n \in 0..MaxRetried}
RetryTypes == RegisteredTypes \cup {"create_student_folders"}

\* One step of the caller thread inside retry_failed_operations.
RetryStep(Raising, Saving) ==
    \/ InitializeProgress
    \/ RetryNext
    \/ \E o \in RetryOperation(operation_type) : RetryOperationEnds(o)
    \/ UpdateProcessed
    \/ \E raised \in Raising : UpdateOutcome(raised)
    \/ RetrySleep
    \/ Summary
    \/ FinalizeCompleted
    \/ \E o \in Saving : SaveAndReturn(o)

\* batch_size and max_workers play no part in a retry.
InitRetry == Init /\ batch_size = 1 /\ max_workers = DefaultWorkers

NextRetry ==
    \/ /\ runs = 0
       /\ \E items \in RetryLists, t \in RetryTypes, cb \in {"none", "set"} : BeginRetry(items, t, cb)
    \/ RetryStep(BOOLEAN, SaveOutcomes)

SpecRetry == InitRetry /\ [][NextRetry]_vars

\* The store: successive bulk calls on one data/bulk_operations directory, with a
\* cancelling thread, Ctrl-C and the clock.
StoredBehaviour ==
    [k \in Operations \cup {RETRY} |->
        IF k = RETRY THEN {} ELSE {Returns("success", Absent), Raises("timeout")}]

InitStore == Init /\ batch_size = 1 /\ max_workers = DefaultWorkers

NextStore ==
    \/ /\ runs < MaxStoreRuns
       /\ \E n \in 0..MaxStored, loaded \in BOOLEAN : Begin(ISSUES, n, "none", loaded)
    \/ CallerStep(StoredBehaviour, {FALSE}, AllSaved)
    \/ cancel_running_operation
    \/ KeyboardInterrupt
    \/ Tick

SpecStore == InitStore /\ [][NextStore]_vars

\* The history: successive bulk calls and retries of their failed lists on one
\* data/bulk_operations directory, with one history query between two calls.
HistoryOperations == {ISSUES}

\* The operation_type a caller retries the failures of a bulk operation with (the
\* tags main's prompt lists).
RetryTypeOf(k) ==
    CASE k = FOLDERS -> FOLDER_CREATION
      [] k = ISSUES -> ISSUE_CREATION
      [] k = INVITATIONS -> INVITATION_SENDING
      [] OTHER -> PROGRESS_UPDATE

\* retry_failed_operations(results['failed'], ...) on the list the last bulk call
\* returned, with the operation's tag or with the operation's own name.
RetryFailed(t) ==
    /\ Returned
    /\ kind \in BulkOperations
    /\ BeginRetry(results.failed, t, "none")

\* The names the store's files are saved under, which are the patterns asked for.
StoredNames ==
    {OperationName(k, FOLDER_CREATION) : k \in HistoryOperations}
    \cup {OperationName(RETRY, t) : t \in {RetryTypeOf(k) : k \in HistoryOperations} \cup HistoryOperations}

\* The operation_type arguments asked for: none, a name files are saved under, or a
\* retry tag alone (main's usage text: --operation-history folder_creation).
HistoryPatterns == StoredNames \cup {<<>>} \cup {<<RetryTypeOf(k)>> : k \in HistoryOperations}

NextHistory ==
    \/ /\ runs < MaxStoreRuns
       /\ \/ \E k \in HistoryOperations, n \in 0..MaxStored, loaded \in BOOLEAN :
                Begin(k, n, "none", loaded)
          \/ \E t \in {RetryTypeOf(kind), kind} : RetryFailed(t)
          \/ /\ runs = 0
             /\ \E k \in HistoryOperations : BeginRetry(<<>>, k, "none")
    \/ CallerStep(StoredBehaviour, {FALSE}, AllSaved \cup NothingSaved)
    \/ RetryNext
    \/ \E o \in StoredBehaviour[ISSUES] : RetryOperationEnds(o)
    \/ RetrySleep
    \/ /\ history = NoHistory
       /\ \E pattern \in HistoryPatterns, limit \in 0..MaxLimit :
             get_bulk_operation_history(pattern, limit)
    \/ pc = "idle" /\ Tick

SpecHistory == InitStore /\ [][NextHistory]_vars

\* The retry of a run: one bulk call of any operation, then
\* retry_failed_operations on its 'failed' list with the operation's tag.
NextRetryFailed ==
    \/ /\ runs = 0
       /\ \E k \in BulkOperations, n \in 0..MaxStored, loaded \in BOOLEAN :
             Begin(k, n, "none", loaded)
    \/ runs = 1 /\ RetryFailed(RetryTypeOf(kind))
    \/ CallerStep([k \in Operations \cup {RETRY} |-> IF k = RETRY THEN {} ELSE Operation(k)],
                  {FALSE}, AllSaved)
    \/ \E o \in send_supervisors_invitations : SupervisorsStep(o)
    \/ RetryNext
    \/ \E o \in RetryOperation(operation_type) : RetryOperationEnds(o)
    \/ RetrySleep

SpecRetryFailed == InitStore /\ [][NextRetryFailed]_vars

\* The validation: one call of validate_bulk_operation_prerequisites for any
\* operation_type in any environment.
ValidationReplies == {reply \in QuotaReplies : reply.ok => reply.reset = Hour}

NextValidate ==
    /\ validation_type = "none"
    /\ \E t \in ValidationTypes, env \in Environments(Loads, ValidationReplies) :
          ValidateCall(t, env)

SpecValidate == InitStore /\ [][NextValidate]_vars

\* main(): one invocation that validates, runs the full setup or runs a bulk
\* operation.
MainLoads == {l \in Loads : Len(l.students) <= MaxStored}
MainReplies == {reply \in ValidationReplies : reply.ok => reply.remaining = LowWatermark}

NextMain ==
    \/ /\ path = "none"
       /\ \E t \in ValidationTypes, env \in Environments(MainLoads, MainReplies) :
             MainValidate(t, env)
    \/ /\ path = "none"
       /\ \E env \in Environments(MainLoads, MainReplies), proceed \in BOOLEAN :
             MainFullSetup(env, proceed)
    \/ MainBulk
    \/ \E k \in BulkOperations, n \in 0..MaxStored, loaded \in BOOLEAN : MainBegins(k, n, loaded)
    \/ CallerStep(StoredBehaviour, {FALSE}, NothingSaved)
    \/ \E o \in send_supervisors_invitations : SupervisorsStep(o)

SpecMain == InitStore /\ [][NextMain]_vars

\* The client: it is constructed, then called again and again while time passes.
\* The replies the next call's quota query may get: the query is made only when
\* the call waits.
Requeries ==
    IF rate_limit_remaining < LowWatermark /\ rate_limit_reset > clock
    THEN QuotaReplies
    ELSE {[ok |-> FALSE, remaining |-> None, reset |-> None]}

NextClient ==
    \/ \E reply \in QuotaReplies : NewGitHubClient(reply)
    \/ \E reply \in Requeries, response \in Responses : MakeRequest(reply, response)
    \/ \E reply \in Requeries, response \in Responses : CreateRepository(reply, response)
    \/ \E reply \in Requeries, response \in Responses : GetRepository(reply, response)
    \/ ClientTick

SpecClient == InitStore /\ [][NextClient]_vars

\* ------------------------------------------------------ main: --retry-failed
\* The 'operation' tag a bulk operation writes into its results, split at '_'.
TagWords(k) ==
    CASE k = FOLDERS -> <<"bulk", "create", "student", "folders">>
      [] k = ISSUES -> <<"bulk", "create", "student", "issues">>
      [] k = INVITATIONS -> <<"bulk", "send", "invitations">>
      [] OTHER -> <<"bulk", "update", "progress">>

\* str.replace('bulk_', '') on the words of a string: every word 'bulk' that an
\* underscore follows is removed.
RECURSIVE ReplaceBulk(_)
ReplaceBulk(ws) ==
    IF Len(ws) <= 1 THEN ws
    ELSE IF Head(ws) = "bulk" THEN ReplaceBulk(Tail(ws))
    ELSE <<Head(ws)>> \o ReplaceBulk(Tail(ws))

\* '_'.join(words).
RECURSIVE Join(_)
Join(ws) ==
    IF ws = <<>> THEN ""
    ELSE IF Len(ws) = 1 THEN Head(ws)
    ELSE Head(ws) \o "_" \o Join(Tail(ws))

\* Line 569: failed_data.get('operation', '').replace('bulk_', '').replace('_', '_').
DerivedType(k) == Join(ReplaceBulk(TagWords(k)))

\* main --retry-failed FILE: FILE is a file a bulk run wrote (tagged) or a copy of
\* it without the 'operation' key, for which the type is typed at the prompt.
\* With an empty 'failed' list main returns 0 and retries nothing.
MainRetryFailed(f, tagged, typed) ==
    /\ f \in store
    /\ Len(f.name) = 1
    /\ f.data.failed # <<>>
    /\ BeginRetry(f.data.failed, IF tagged THEN DerivedType(f.name[1]) ELSE typed, "set")

\* main's retry: one bulk run of any operation that is saved, then
\* main --retry-failed on a file of data/bulk_operations.
NextMainRetry ==
    \/ /\ runs = 0
       /\ \E k \in BulkOperations, n \in 0..MaxStored, loaded \in BOOLEAN :
             Begin(k, n, "none", loaded)
    \/ /\ runs = 1
       /\ pc = "idle"
       /\ \E f \in store, tagged \in BOOLEAN, typed \in RegisteredTypes :
             MainRetryFailed(f, tagged, typed)
    \/ CallerStep([k \in Operations \cup {RETRY} |-> IF k = RETRY THEN {} ELSE Operation(k)],
                  {FALSE}, AllSaved)
    \/ \E o \in send_supervisors_invitations : SupervisorsStep(o)
    \/ RetryNext
    \/ \E o \in RetryOperation(operation_type) : RetryOperationEnds(o)
    \/ RetrySleep

SpecMainRetry == InitStore /\ [][NextMainRetry]_vars

\* The observer and the readers: one bulk call with an observer while other
\* threads read and cancel, the holders of a dict write to it, and the observer's
\* callback may call back into the BulkProcessor.
NextObserver ==
    \/ /\ runs = 0
       /\ \E k \in TrackedOperations, n \in 0..MaxTracked, loaded \in BOOLEAN :
             Begin(k, n, "set", loaded)
    \/ CallerStep(TrackedBehaviour, {FALSE}, NothingSaved)
    \/ cancel_running_operation
    \/ get_progress_status
    \/ \E w \in Holders : MutateSnapshot(w)
    \/ \E m \in Reentries : CallbackReenters(m)

SpecObserver == InitTracker /\ [][NextObserver]_vars

\* ------------------------------------------------------------------ claims
\* The entity a result dict refers to ('student', or 'item' in batch_process).
Entity(res) == IF res.student # 0 THEN res.student ELSE res.item

\* The position of entity e in the roster.
Position(e) == CHOOSE p \in 1..Len(students) : students[p] = e

\* The entities of a list of result dicts follow the roster's order.
InInputOrder(rs) ==
    \A a, b \in 1..Len(rs) :
        (a < b /\ Entity(rs[a]) # 0 /\ Entity(rs[b]) # 0)
            => Position(Entity(rs[a])) < Position(Entity(rs[b]))

\* Number of operation calls of the run that ended in a success.
Successes == Cardinality({p \in 1..Len(opLog) : SuccessFlag(kind, opLog[p].outcome)})

\* Number of batches a roster of n is split into (line 925).
Batches(n, size) == (n + size - 1) \div size

\* C1: a bulk run of bulk_create_student_folders, bulk_create_student_issues,
\* bulk_update_progress or batch_process that returns has exactly one outcome per
\* entity: N outcomes, and successful + failed + partial_success = N, whatever the
\* per-entity operation returned or raised.
C1_OneOutcomePerEntity ==
    (Returned /\ kind \in {FOLDERS, ISSUES, PROGRESS, BATCH}) =>
        /\ Len(opLog) = Len(students)
        /\ kind \in {FOLDERS, BATCH} => Len(all_results) = Len(students)
        /\ kind # BATCH =>
            /\ Len(results.successful) + Len(results.failed) + Len(results.partial_success)
                  = Len(students)
            /\ results.total_processed = Len(students)
            /\ results.summary.total_processed = Len(students)

\* C1 witness: a run over a full roster whose operation raised on every call.
C1_Witness ==
    /\ Returned
    /\ kind = ISSUES
    /\ Len(students) = MaxStudents
    /\ \A p \in 1..Len(opLog) : opLog[p].outcome.raises

\* The outcome recorded for the p-th operation call, which raised: the entry of
\* the failed list (of the returned list in batch_process) for that entity.
Recorded == IF kind = BATCH THEN all_results ELSE results.failed

C3_InputOrder ==
    Returned =>
        /\ kind \in {FOLDERS, BATCH} =>
              \A p \in 1..Len(all_results) : Entity(all_results[p]) = students[p]
        /\ InInputOrder(results.successful)
        /\ InInputOrder(results.failed)
        /\ InInputOrder(results.partial_success)
        /\ \A p \in 1..Len(opLog) : opLog[p].student = students[p]

\* C3 witness: a roster split by a batch boundary, with a failure between successes.
C3_Witness ==
    /\ Returned
    /\ kind = FOLDERS
    /\ batch_size = 2
    /\ Len(students) = 3
    /\ Len(results.successful) = 2
    /\ Len(results.failed) = 1
    /\ Entity(results.failed[1]) = students[2]

\* C4: a run split into k batches sleeps exactly k - 1 times when k > 1 and never
\* when k <= 1: after every batch but the last.
C4_DelayBetweenBatches ==
    /\ Returned =>
          LET k == Batches(Len(students), batch_size)
          IN sleeps = IF k > 1 THEN k - 1 ELSE 0
    /\ (pc = "batch" /\ batch_size > 0 /\ i >= Len(students)) =>
          sleeps = IF Len(students) = 0 THEN 0 ELSE Batches(Len(students), batch_size) - 1

\* C4 witness: three batches, two delays.
C4_Witness ==
    /\ Returned
    /\ Len(students) = 3
    /\ batch_size = 1
    /\ sleeps = 2

\* C5 (as claimed): progress_data['status'] changes only idle -> running ->
\* {completed, error, cancelled}; a terminal status is entered only from 'running'
\* and is left only when _initialize_progress starts a new run.
C5_StatusTransitions ==
    [][progress_data'.status # progress_data.status =>
          \/ progress_data.status = "idle" /\ progress_data'.status = "running"
          \/ progress_data.status = "running" /\ progress_data'.status \in Terminal
          \/ /\ progress_data.status \in Terminal
             /\ pc = "initialize"
             /\ progress_data'.status = "running"]_vars

\* C6 (as claimed): once cancel_running_operation() has taken effect in a run with
\* entities left, no further operation is dispatched, and the run ends with status
\* 'cancelled', its outcomes and processed_items covering only the entities
\* reached before the cancel.
C6_CancelStopsRun ==
    (cancelAt # None /\ cancelAt >= 1 /\ cancelAt < Len(students)) =>
        /\ dispatched = cancelAt
        /\ pc = "idle" =>
              /\ progress_data.status = "cancelled"
              /\ progress_data.processed_items = cancelAt
              /\ Len(opLog) = cancelAt

\* processed = successful + failed in a copy of progress_data.
Consistent(pd) == pd.processed_items = pd.successful_items + pd.failed_items

\* C7: every snapshot returned by get_progress_status, also one taken by another
\* thread during a run, and every snapshot handed to the observer has
\* processed_items = successful_items + failed_items.
C7_SnapshotsConsistent ==
    /\ Consistent(snap)
    /\ \A k \in 1..Len(obs) : Consistent(obs[k])

\* C7 witness: a reader took a snapshot between two recorded outcomes of a run.
C7_Witness ==
    /\ snap.status = "running"
    /\ snap.processed_items = 1
    /\ snap.failed_items = 1
    /\ Len(obs) = 1
    /\ pc = "update_outcome"

\* C8: the observer is invoked once per processed entity, after the entity's
\* operation has ended and before the next one starts, in roster order, the k-th
\* invocation seeing processed_items = k (bulk_send_invitations adds one invocation
\* for its supervisor step); at most one operation is in flight.
C8_ObserverPerEntity ==
    /\ Cardinality(inflight) <= 1
    /\ pc = "operation" => inflight = {students[dispatched]}
    /\ \A k \in 1..Len(obs) : obs[k].processed_items = k
    /\ callback = "none" => obs = <<>>
    /\ callback = "set" =>
        /\ pc = "operation" => Len(obs) = dispatched - 1
        /\ (pc \in {"update", "update_outcome"} /\ phase = "students") =>
              Len(obs) = dispatched - 1
        /\ pc \in {"entity", "batch"} => Len(obs) = dispatched
        /\ Returned =>
              Len(obs) = Len(students) + (IF kind = INVITATIONS THEN 1 ELSE 0)

\* C8 witness: a run over a full roster in two batches, the observer told of each entity.
C8_Witness ==
    /\ Returned
    /\ max_workers = DefaultWorkers
    /\ callback = "set"
    /\ kind = FOLDERS
    /\ batch_size = 2
    /\ Len(obs) = MaxStudents
    /\ Len(results.failed) >= 1

\* Entries of a list of result dicts that belong to a student.
StudentEntries(rs) == Cardinality({q \in 1..Len(rs) : Entity(rs[q]) # 0})

\* C9: an observer that raises cannot abort or alter the run: the run returns with
\* status 'completed', and its outcomes and counters are those the operations'
\* outcomes alone determine.
C9_ObserverCannotAbort ==
    obs_raised > 0 =>
        /\ pc # "failed"
        /\ ret # "raised"
        /\ Returned =>
            /\ progress_data.status = "completed"
            /\ Len(opLog) = Len(students)
            /\ progress_data.processed_items = progress_data.total_items
            /\ progress_data.successful_items = Successes
            /\ progress_data.failed_items = progress_data.total_items - Successes
            /\ Len(results.successful) = Successes
            /\ StudentEntries(results.failed) + StudentEntries(results.partial_success)
                  = Len(students) - Successes

\* C9 witness: the observer raised on every invocation of a run over a full roster.
C9_Witness ==
    /\ Returned
    /\ Len(obs) = MaxStudents
    /\ obs_raised = Len(obs)
    /\ Successes >= 1
    /\ Successes < MaxStudents

\* C10: cancel_running_operation() returns True exactly when the status was
\* 'running', and then sets 'cancelled' and stamps end_time; in every other status
\* it returns False and leaves progress_data as it was.
C10_CancelEffect ==
    [][cancel_calls' # cancel_calls =>
          IF progress_data.status = "running"
          THEN /\ cancel_ret' = TRUE
               /\ progress_data' = [progress_data EXCEPT !.status = "cancelled",
                                                         !.end_time = now]
          ELSE /\ cancel_ret' = FALSE
               /\ progress_data' = progress_data]_vars

\* C10 witness: a cancel that took effect after the first outcome of a run, a tick
\* after its start.
C10_Witness ==
    /\ cancel_ret = TRUE
    /\ progress_data.status = "cancelled"
    /\ progress_data.start_time = 0
    /\ progress_data.end_time = 1
    /\ progress_data.processed_items = 1

\* Positions of the failed items that carry no student.
WithoutStudent == {p \in 1..Len(failed_results) : failed_results[p].student = 0}

\* Positions of the entries of a list of result dicts that carry the error msg.
EntriesWith(rs, msg) == {q \in 1..Len(rs) : rs[q].error = msg}

\* C11: retry_failed_operations yields one retry outcome per input item:
\* len(successful) + len(failed) = len(failed_results) = total_retried, and every
\* item without a student is in 'failed' with the no-student error and itself as
\* original_item, for every operation type and whatever the operation does.
C11_OneRetryOutcomePerItem ==
    /\ (kind = RETRY /\ pc = "retry_item") =>
          Len(results.successful) + Len(results.failed) = taken
    /\ (Returned /\ kind = RETRY) =>
        /\ Len(results.successful) + Len(results.failed) = Len(failed_results)
        /\ results.total_retried = Len(failed_results)
        /\ results.summary.total_processed = Len(failed_results)
        /\ progress_data.processed_items = Len(failed_results)
        /\ Cardinality(EntriesWith(results.failed, "No student data in failed item"))
              = Cardinality(WithoutStudent)
        /\ \A p \in WithoutStudent :
              \E q \in EntriesWith(results.failed, "No student data in failed item") :
                  results.failed[q].original_item = failed_results[p]

\* C11 witness: a retry of two items, one without a student and one whose
\* operation raised.
C11_Witness ==
    /\ Returned
    /\ kind = RETRY
    /\ Len(failed_results) = 2
    /\ Cardinality(WithoutStudent) = 1
    /\ Len(opLog) = 1
    /\ opLog[1].outcome.raises

\* Positions of the failed items that carry a student.
WithStudent == {p \in 1..Len(failed_results) : failed_results[p].student # 0}

\* C12: a retry with an operation_type that is not registered does not raise: every
\* item with a student gets a failed outcome with the unknown-operation-type
\* error, no per-entity operation is called and the run ends 'completed'.
C12_UnknownTypeFails ==
    (kind = RETRY /\ operation_type \notin RegisteredTypes) =>
        /\ pc # "failed"
        /\ ret # "raised"
        /\ dispatched = 0
        /\ opLog = <<>>
        /\ Returned =>
            /\ progress_data.status = "completed"
            /\ results.successful = <<>>
            /\ Cardinality(EntriesWith(results.failed, "Unknown operation type"))
                  = Cardinality(WithStudent)
            /\ \A q \in EntriesWith(results.failed, "Unknown operation type") :
                  results.failed[q].status = "error"

\* C12 witness: a retry of a full list of items with students under an unknown type.
C12_Witness ==
    /\ Returned
    /\ kind = RETRY
    /\ operation_type \notin RegisteredTypes
    /\ Len(failed_results) = MaxRetried
    /\ Cardinality(WithStudent) = MaxRetried

\* C13 (as claimed): retrying an empty failed list returns an empty result and
\* touches neither persistence nor the remote client: no save_progress_data call,
\* no file written, no operation called.
C13_EmptyRetryTouchesNothing ==
    (kind = RETRY /\ failed_results = <<>>) =>
        /\ saveLog = <<>>
        /\ store = {}
        /\ dispatched = 0
        /\ Returned => (results.successful = <<>> /\ results.failed = <<>>)

\* C14 (as claimed): for every registered operation type, a retry of items that all
\* carry a student, in which every operation called succeeds, returns all of them
\* in 'successful' and none in 'failed'.
C14_RetrySucceeds ==
    (/\ Returned
     /\ kind = RETRY
     /\ operation_type \in RegisteredTypes
     /\ WithoutStudent = {}
     /\ \A p \in 1..Len(opLog) :
           ~opLog[p].outcome.raises /\ opLog[p].outcome.status = "success") =>
        /\ Len(results.successful) = Len(failed_results)
        /\ results.failed = <<>>

\* C17: a persistence failure never propagates and never changes the run: whichever
\* of the timestamped and the latest write fails, the bulk operation returns its
\* results unchanged with status 'completed', and when the first write fails the
\* second is still attempted.
C17_SaveFailureSwallowed ==
    [][pc = "save" =>
          /\ pc' = "idle"
          /\ ret' = "returned"
          /\ progress_data.status = "completed"
          /\ progress_data' = progress_data
          /\ results' = results
          /\ Len(saveLog') # 1
          /\ \A c \in 1..Len(saveLog') : saveLog'[c].latest = (c = 2)]_vars

\* C17 witness: a run returned after its timestamped write failed and its latest
\* write succeeded.
C17_Witness ==
    /\ Returned
    /\ kind = ISSUES
    /\ Len(results.failed) = 1
    /\ saveLog = <<[latest |-> FALSE, written |-> FALSE], [latest |-> TRUE, written |-> TRUE]>>
    /\ \A f \in store : f.latest
    /\ store # {}

\* C15 (as claimed): every entry a bulk run leaves in 'failed' is retryable: the
\* retry of that list with the operation's tag rejects no item for lacking a
\* student and calls the per-entity operation once for every item.
C15_FailedEntriesRetryable ==
    (Returned /\ kind = RETRY) =>
        /\ EntriesWith(results.failed, "No student data in failed item") = {}
        /\ dispatched = Len(failed_results)

\* The latest_ file of the operation a returned call ran.
LatestRecord == {f \in store : f.latest /\ f.name = OperationName(kind, operation_type)}

\* C16 (as claimed): only a run that went through its whole loop undisturbed is
\* persisted: a save_progress_data call is made only by a run that returned and
\* was never cancelled, and after a returned run the latest record of its
\* operation holds that run's results.
C16_OnlyCompletedRunsPersist ==
    /\ saveLog # <<>> => (Returned /\ cancelAt = None)
    /\ (Returned /\ cancelAt = None) =>
          \A f \in LatestRecord : f.run = runs /\ f.data = results

\* C18 (as claimed): a timestamped record, once written, is never overwritten or
\* changed: every step leaves each timestamped file in the store with the data and
\* the run that wrote it.
C18_TimestampedNeverOverwritten ==
    [][\A f \in store : ~f.latest =>
          \E g \in store' : FilePath(g) = FilePath(f) /\ g.data = f.data /\ g.run = f.run]_vars

\* A save_progress_data call of the returned run wrote its file.
Persisted == \E c \in 1..Len(saveLog) : saveLog[c].written

C20_HistoryOfThatOperation ==
    /\ Len(history.records) <= history.limit
    /\ \A a, b \in 1..Len(history.records) :
          a < b => \E f, g \in store :
                     /\ FilePath(f) = history.records[a].file_path
                     /\ FilePath(g) = history.records[b].file_path
                     /\ f.mtime > g.mtime
    /\ history.operation_type # <<>> =>
          \A a \in 1..Len(history.records) :
              history.records[a].operation = history.operation_type

\* A validation has returned its report.
Validated == validation_type # "none"

\* The positions of the entries of a list of findings that carry the message msg.
Findings(fs, msg) == {q \in 1..Len(fs) : fs[q].msg = msg}

\* C21: in every report validation returns, on the early return as on the full
\* path, valid is TRUE exactly when 'errors' is empty, whatever the warnings are.
C21_ValidIffNoErrors ==
    Validated =>
        /\ validation_result.valid = (validation_result.errors = <<>>)
        /\ validation_result.exc = Absent

\* C21 witness: a valid report of bulk_send_invitations with warnings for the
\* quota, a missing e-mail, a missing user name and the supervisors.
C21_Witness ==
    /\ Validated
    /\ validation_type = INVITATIONS
    /\ validation_result.valid
    /\ Len(validation_result.warnings) >= 4
    /\ environment.supervisors = 0

\* C22 (as claimed): no per-entity operation of a bulk run is dispatched unless a
\* validation of this invocation has returned valid = True.
C22_ValidationGatesRun ==
    dispatched > 0 => (Validated /\ validation_result.valid)

\* C23 (as claimed): when the loaded list is empty the report is not valid, has an
\* error and has no warning about the quota, for every operation type and reply.
C23_EmptyListNoQuotaWarning ==
    (Validated /\ ~environment.load.raises /\ environment.load.students = <<>>) =>
        /\ ~validation_result.valid
        /\ validation_result.errors # <<>>
        /\ Findings(validation_result.warnings, "Low GitHub rate limit") = {}

\* The configuration is complete and the repository, where it is looked up, exists.
Sound ==
    /\ \A c \in 1..Len(RequiredConfig) : environment.config[RequiredConfig[c]]
    /\ validation_type \in RepositoryOperations => environment.repo

\* C24: for a non-empty list, a complete configuration and an existing repository,
\* the report is valid and has no error, and every student that lacks a required
\* field (or the GitHub user name, for invitations) has a warning that names it.
C24_MissingFieldsWarn ==
    (Validated /\ ~environment.load.raises /\ environment.load.students # <<>> /\ Sound) =>
        /\ validation_result.valid
        /\ validation_result.errors = <<>>
        /\ \A x \in 1..Len(environment.load.students) :
              /\ \A f \in 1..Len(RequiredFields) :
                    ~environment.load.students[x][RequiredFields[f]] =>
                        \E q \in Findings(validation_result.warnings, "Missing or empty field") :
                            /\ validation_result.warnings[q].student = x
                            /\ validation_result.warnings[q].what = RequiredFields[f]
              /\ (validation_type = INVITATIONS
                    /\ ~environment.load.students[x]["github_username"]) =>
                        \E q \in Findings(validation_result.warnings,
                                          "No GitHub username provided") :
                            validation_result.warnings[q].student = x

\* C24 witness: invitations are validated for a student without e-mail and
\* without GitHub user name, everything else being in order.
C24_Witness ==
    /\ Validated
    /\ validation_type = INVITATIONS
    /\ Sound
    /\ Len(environment.load.students) = 1
    /\ ~environment.load.students[1]["email"]
    /\ ~environment.load.students[1]["github_username"]
    /\ validation_result.valid
    /\ Findings(validation_result.warnings, "Missing or empty field") # {}

\* C25: an absent repository is a hard error for bulk_create_student_folders,
\* bulk_create_student_issues and bulk_send_invitations, and is no error (the
\* repository is not even looked up) for any other operation.
C25_AbsentRepository ==
    (Validated /\ ~environment.load.raises) =>
        IF validation_type \in RepositoryOperations /\ ~environment.repo
        THEN /\ ~validation_result.valid
             /\ Findings(validation_result.errors, "Repository does not exist") # {}
             /\ validation_result.checks["repository_access"] = Check("FAILED", None)
        ELSE /\ Findings(validation_result.errors, "Repository does not exist") = {}
             /\ validation_result.checks["repository_access"] =
                   IF validation_type \in RepositoryOperations THEN Check("OK", None) ELSE NoCheck

\* C25 witness: the operation that creates the repository is validated while the
\* repository is absent, and the report is valid.
C25_Witness ==
    /\ Validated
    /\ validation_type = CREATE_REPOSITORIES
    /\ ~environment.repo
    /\ environment.load.students # <<>>
    /\ validation_result.valid

\* C26 (as claimed): when the client's remaining quota is q, q < 100 gives a
\* warning carrying q and the rate_limit check WARNING, q >= 100 gives no quota
\* warning and the rate_limit check OK; the quota check adds no error.
C26_QuotaWarning ==
    (Validated /\ ~environment.load.raises /\ environment.reply.ok) =>
        /\ IF environment.reply.remaining < LowWatermark
           THEN /\ \E q \in Findings(validation_result.warnings, "Low GitHub rate limit") :
                      validation_result.warnings[q].number = environment.reply.remaining
                /\ validation_result.checks["rate_limit"].status = "WARNING"
           ELSE /\ Findings(validation_result.warnings, "Low GitHub rate limit") = {}
                /\ validation_result.checks["rate_limit"].status = "OK"
        /\ Findings(validation_result.errors, "Low GitHub rate limit") = {}

\* Every configuration value that is not set is reported.
ConfigReported ==
    \A c \in 1..Len(RequiredConfig) :
        ~environment.config[RequiredConfig[c]] =>
            \E q \in Findings(validation_result.errors, "Configuration missing") :
                validation_result.errors[q].what = RequiredConfig[c]

\* C27 (as claimed): validation never raises, and whichever check fails the other
\* checks are still evaluated and reported: the quota, the configuration and the
\* disk are reported in every report.
C27_AsClaimed ==
    Validated =>
        /\ validation_result.exc = Absent
        /\ validation_result.checks["rate_limit"] # NoCheck
        /\ validation_result.checks["disk_space"] # NoCheck
        /\ ConfigReported

\* The errors a report owes to the checks that found something wrong: the empty
\* list, the absent repository and the configuration values that are not set.
ExpectedErrors ==
    Cardinality({c \in 1..Len(RequiredConfig) : ~environment.config[RequiredConfig[c]]})
    + (IF validation_type \in RepositoryOperations /\ ~environment.repo THEN 1 ELSE 0)
    + (IF environment.load.students = <<>> THEN 1 ELSE 0)

\* C27 (amended): validation never raises; a failed repository lookup and a failed
\* disk query change only their own check, every other check being evaluated and
\* reported and no error being added for the failure; but a CSV load that raises
\* ends validation at once, with the load error and project_data FAILED as the
\* whole report.
C27_ChecksIndependent ==
    Validated =>
        /\ validation_result.exc = Absent
        /\ IF environment.load.raises
           THEN validation_result =
                   SetCheck(AddError(NewReport, "Cannot read project CSV", Absent),
                            "project_data", Check("FAILED", None))
           ELSE /\ validation_result.checks["rate_limit"] # NoCheck
                /\ validation_result.checks["disk_space"] # NoCheck
                /\ validation_result.checks["validation"] = NoCheck
                /\ validation_result.checks["github_api"] = NoCheck
                /\ validation_result.checks["project_data"] =
                      IF environment.load.students = <<>> THEN NoCheck
                      ELSE Check("OK", Len(environment.load.students))
                /\ validation_type = INVITATIONS =>
                      validation_result.checks["supervisors"] # NoCheck
                /\ ConfigReported
                /\ Len(validation_result.errors) = ExpectedErrors
                /\ environment.disk = "raises" =>
                      /\ validation_result.checks["disk_space"] = Check("UNKNOWN", None)
                      /\ Findings(validation_result.warnings, "Low disk space") = {}
                /\ (validation_type \in RepositoryOperations /\ ~environment.repo) =>
                      validation_result.checks["repository_access"] = Check("FAILED", None)

\* C27 witness: folders are validated while the repository lookup fails, a
\* configuration value is not set and the disk query raises.
C27_Witness ==
    /\ Validated
    /\ validation_type = FOLDERS
    /\ ~environment.load.raises
    /\ ~environment.repo
    /\ ~environment.config["github.token"]
    /\ environment.disk = "raises"
    /\ validation_result.checks["disk_space"] = Check("UNKNOWN", None)
    /\ Len(validation_result.errors) = 2

\* A request has been made through the client.
Requested == last_call.name \in {"make_request", "create_repository", "get_repository"}

\* C28 (as claimed): before every remote call, a stored quota below 100 makes the
\* client take the reset-wait path (wait, then query the quota again) whatever the
\* stored reset time is, a quota of 100 or more sends the call with no wait, and
\* no wait exceeds 3600 seconds.
C28_HeadroomGating ==
    Requested =>
        /\ last_call.before.rate_limit_remaining < LowWatermark => last_call.requeried
        /\ last_call.before.rate_limit_remaining >= LowWatermark =>
              (last_call.slept = 0 /\ ~last_call.requeried)
        /\ last_call.slept <= Hour

\* C29 (as claimed): after a remote call that got a response, the remaining quota
\* and the reset time are both those of the response's rate-limit headers when it
\* has them, and both are what they were when the call was sent when it has not.
C29_QuotaFromResponse ==
    (Requested /\ ~last_call.response.error) =>
        IF last_call.response.metadata
        THEN /\ rate_limit_remaining = last_call.response.remaining
             /\ rate_limit_reset = last_call.response.reset
        ELSE /\ rate_limit_remaining = last_call.sent.rate_limit_remaining
             /\ rate_limit_reset = last_call.sent.rate_limit_reset

\* C30 (as claimed): a transport error never leaves the client as an exception,
\* from make_request as from create_repository and get_repository.
C30_TransportErrorContained ==
    (Requested /\ last_call.response.error) => ~last_call.raised

\* C34 (as claimed): the summary a completed bulk run returns and persists holds
\* duration_seconds = end_time - start_time of the run.
C34_SummaryHasDuration ==
    (Returned /\ kind \in BulkOperations /\ progress_data.status = "completed") =>
        /\ results.summary.duration_seconds = progress_data.end_time - progress_data.start_time
        /\ \A f \in store : f.data.summary.duration_seconds = results.summary.duration_seconds

\* C33: from its initialization on, a run's processed_items never decreases and
\* never exceeds total_items, the progress_percentage of an initialized tracker
\* stays within 0..100, and a tracker in status 'completed' has processed_items = total_items; for every
\* bulk operation (bulk_send_invitations counts students + 1) and for the retry.
C33_ProcessedWithinTotal ==
    [][/\ pc # "initialize" =>
             progress_data'.processed_items >= progress_data.processed_items
       /\ progress_data'.processed_items <= progress_data'.total_items
       /\ progress_data'.start_time # None => progress_data'.progress_percentage \in 0..100
       /\ progress_data'.status = "completed" =>
             progress_data'.processed_items = progress_data'.total_items]_vars

\* C33 witness: bulk_send_invitations completed for one student after the
\* supervisor step raised, then the retry of its two failures completed.
C33_Witness ==
    /\ Returned
    /\ kind = RETRY
    /\ operation_type = INVITATION_SENDING
    /\ Len(failed_results) = 2
    /\ progress_data.status = "completed"
    /\ progress_data.processed_items = 2

\* C36 (as claimed): the operation type main derives from the 'operation' tag of a
\* persisted bulk run is a registered retry type, the one of the operation that
\* wrote the file, for each of the four bulk operations.
C36_DerivedTypeRegistered ==
    \A f \in store :
        (kind = RETRY /\ Len(f.name) = 1 /\ operation_type = DerivedType(f.name[1])) =>
            /\ operation_type \in RegisteredTypes
            /\ operation_type = RetryTypeOf(f.name[1])

\* C35 (as claimed): in the result a bulk operation returns, results['total_processed']
\* = summary['total_processed'] = len(successful) + len(failed) + len(partial_success),
\* also for bulk_send_invitations when the supervisor step raises.
C35_TotalsAgree ==
    (Returned /\ kind \in BulkOperations) =>
        /\ results.total_processed = results.summary.total_processed
        /\ results.summary.total_processed =
              Len(results.successful) + Len(results.failed) + Len(results.partial_success)

\* The quota query of the last call on the client failed: another status, an
\* unexpected body or an exception.
QueryFailed(c) == (c.name = "__init__" \/ c.requeried) /\ ~c.query_ok

\* C37: a quota query that fails leaves rate_limit_remaining = 1000; the call that
\* waited and whose re-query failed is sent with that estimate after its one wait;
\* and with an estimate of 100 or more (1000 until a response reports another
\* value) the next call neither waits nor queries the quota.
C37_FailedQueryIsConservative ==
    [][/\ (last_call'.name = "__init__" /\ QueryFailed(last_call')) =>
             rate_limit_remaining' = ConservativeRemaining
       /\ (Requested' /\ QueryFailed(last_call')) =>
             /\ last_call'.sent.rate_limit_remaining = ConservativeRemaining
             /\ last_call'.slept =
                   Min(last_call'.before.rate_limit_reset - last_call'.before.clock, Hour)
             /\ rate_limit_remaining' =
                   IF ~last_call'.response.error /\ last_call'.response.metadata
                   THEN last_call'.response.remaining
                   ELSE ConservativeRemaining
       /\ (rate_limit_remaining >= LowWatermark /\ last_call' # last_call) =>
             (last_call'.slept = 0 /\ ~last_call'.requeried)]_vars

\* C37 witness: a call waited an hour, its re-query failed, and it was sent and
\* answered without rate-limit headers.
C37_Witness ==
    /\ Requested
    /\ QueryFailed(last_call)
    /\ last_call.slept = Hour
    /\ ~last_call.response.error
    /\ ~last_call.response.metadata
    /\ rate_limit_remaining = ConservativeRemaining

\* C31: the dict get_progress_status() returns and the dict the observer is handed
\* are copies: a write of its holder to such a dict leaves progress_data as it
\* is, and as long as the holder keeps the dict and does not write to it, what it
\* reads in it is not changed by any step of the tracker (record, finish, cancel,
\* initialize).
C31_SnapshotsAreCopies ==
    [][\A w \in Holders :
          /\ (held[w].taken /\ held'[w].edits = held[w].edits + 1) =>
                progress_data' = progress_data
          /\ (held[w].taken /\ held'[w] = held[w]) =>
                Content(held[w], progress_data)' = Content(held[w], progress_data)]_vars

\* C31 witness: a reader took a snapshot after the first outcome of a run and
\* wrote to it, the observer holds the snapshot of the second outcome, and the
\* run has completed since.
C31_Witness ==
    /\ held["reader"].taken
    /\ held["reader"].edits = 1
    /\ held["reader"].data.status = "running"
    /\ held["reader"].data.successful_items = 1
    /\ held["reader"].data.processed_items = 0
    /\ held["observer"].taken
    /\ held["observer"].data.status = "running"
    /\ held["observer"].data.processed_items = 2
    /\ progress_data.status = "completed"
    /\ progress_data.processed_items = 2

\* C32 (as claimed): the caller thread never waits for progress_lock inside an
\* observer callback that calls get_progress_status() or
\* cancel_running_operation(): the callback returns and the run goes on.
C32_ObserverReturns ==
    pc # "blocked"

====
